---- MODULE Spec2Model ----
(***************************************************************************)
(* Model of the commit-confirm transaction guard (SafetyManager) of the    *)
(* WireGuard configuration backend, together with the commit pipeline      *)
(* (_perform_commit) it redeploys through.                                 *)
(*                                                                         *)
(* Durable state: the domain store (instance/wireguard.db), its            *)
(* last-known-good copy, the sidecar record, the interface config file     *)
(* and the firewall script.  Volatile state of the running process: the    *)
(* class attributes _transaction_id and _timer and the Timer threads.      *)
(***************************************************************************)
EXTENDS Integers, Sequences, FiniteSets, TLC

\* ---------------------------------------------------------------- bounds
MaxTx == 2          \* transactions (uuid4 values) issued in one behaviour
MaxTime == 90       \* the clock stops advancing here
TickLen == 30       \* seconds that pass in one clock step
MaxVer == 1         \* each part of the domain data takes a value in 0..MaxVer
MaxReq == 2         \* request threads that the WSGI server runs side by side

\* ------------------------------------------------------ program constants
Window == 60        \* start_transaction: time.time() + 60.0, Timer(60.0, ...)

None == 0           \* Python None for _transaction_id / _timer
Tids == 1..MaxTx    \* the uuid4 strings, in order of generation

\* A thread: where it is in its handler (pc), the handler (op), the id it
\* was called with (arg) and the _transaction_id it read (seen).
ReqThreads == 1..MaxReq
TimerThread(i) == MaxReq + i       \* the thread of the i-th Timer object
Threads == 1..(MaxReq + MaxTx + 1)
Thread(pc, op, arg, seen) == [pc |-> pc, op |-> op, arg |-> arg, seen |-> seen]
Idle == Thread("idle", "none", None, None)

\* No helper has been called yet.
NoCall == [fn |-> "none"]

\* A file is <<>> when it does not exist and <<content>> when it does.
NoFile == <<>>
File(c) == <<c>>
Exists(f) == f # NoFile
Content(f) == f[1]

\* The domain store.  create_app runs db.create_all() before
\* SafetyManager.init, so the store file exists whenever the guard looks.
\* Its content: ServerConfig.server_private_key set or not, and the
\* networks, clients and access rules, each abstracted to a small value.
\* key, pub and endpoint: ServerConfig.server_private_key,
\* server_public_key and server_endpoint are set.
Stores == [key : BOOLEAN, pub : BOOLEAN, endpoint : BOOLEAN,
           net : 0..MaxVer, cli : 0..MaxVer, rul : 0..MaxVer]
FreshStore == [key |-> FALSE, pub |-> FALSE, endpoint |-> FALSE,
               net |-> 0, cli |-> 0, rul |-> 0]

\* The stores the CRUD layer writes in Spec: the setup wizard sets the server
\* keys, after that clients are added and removed.
Edits == {s \in Stores : s.key /\ s.pub /\ s.endpoint /\ s.net = 0 /\ s.rul = 0}

VARIABLES
    up,              \* the process runs and SafetyManager.init has returned
    now,             \* time.time()
    transaction_id,  \* SafetyManager._transaction_id
    timer,           \* SafetyManager._timer: index into timers, or None
    timers,          \* the threading.Timer objects of this process
    sidecar,         \* instance/safety_transaction.json
    store,           \* instance/wireguard.db
    backup,          \* instance/wireguard.db.last_good
    conf,            \* the interface config file at WG_CONFIG_PATH
    rules,           \* the firewall script next to it
    nextId,          \* number of uuid4 values generated so far
    lastOp,          \* the operation that made the last step, with its result
    reverts,         \* per transaction id: runs of _trigger_revert_logic
    confirmed,       \* ids for which confirm_transaction returned True
    aborted,         \* ids cleared by abort_transaction
    host,            \* the machine: tools installed, how they behave, paths
    trace,           \* what the last deployment did on the host, in order
    lock,            \* SafetyManager._lock: the thread holding it, or None
    thr,             \* the threads, where each is in its handler
    io               \* the last call of a pure helper: its input and its result

vars == <<up, now, transaction_id, timer, timers, sidecar, store, backup,
          conf, rules, nextId, lastOp, reverts, confirmed, aborted,
          host, trace, lock, thr, io>>

aux == <<host, trace, lock, thr, io>>

durable == <<sidecar, store, backup, conf, rules>>
ghost == <<reverts, confirmed, aborted>>

Op(name, arg, ret) == [op |-> name, arg |-> arg, ret |-> ret]

\* ------------------------------------------------------------- rendering
\* render_wg_conf: the interface part (keys, addresses of the networks)
\* followed by one marked block per enabled client.
render_wg_conf(s) == [iface |-> <<s.key, s.net>>, peers |-> <<s.net, s.cli>>]

\* render_firewall_script: built from networks, clients and rules.
render_firewall_script(s) == [fw |-> <<s.net, s.cli, s.rul>>]

\* get_interface_part: the lines before the first "### begin" marker.
get_interface_part(c) == c.iface

\* ------------------------------------------------------- the host machine
\* The tools a deployment looks up, other than systemctl (see systemd below).
Tools == {"ip", "wg-quick", "wg", "bash"}

\* The external commands a deployment runs.
Acts == {"systemctl stop", "wg-quick down", "systemctl start", "wg-quick up",
         "wg syncconf", "rules apply"}

\* The commands that bring the rendered files into effect.
Activations == {"systemctl start", "wg-quick up", "wg syncconf", "rules apply"}

\* A path: directory, file stem and extension.  Unset is an environment
\* variable that is not set.
Path(dir, stem, ext) == [dir |-> dir, stem |-> stem, ext |-> ext]
Unset == Path("", "", "")
EtcWg0 == Path("/etc/wireguard", "wg0", ".conf")
CfgPaths == {Unset, EtcWg0, Path("", "wg0", ".conf")}

\* os.environ.get(name, default)
EnvGet(v, default) == IF v = Unset THEN default ELSE v

\* str.replace('.conf', '-rules.sh') on a path whose only ".conf" is its
\* extension
ReplaceConf(p) == IF p.ext = ".conf" THEN [p EXCEPT !.ext = "-rules.sh"] ELSE p

\* _perform_commit: config_path and rules_path
config_path(v) == EnvGet(v, Path("", "wg0_generated", ".conf"))
rules_path(v) == ReplaceConf(config_path(v))

\* render_wg_conf: the script its PostUp/PostDown lines call,
\* os.path.join(dirname(...), basename(...).replace('.conf', '') + "-rules.sh")
rules_script_path(v) ==
    Path(EnvGet(v, EtcWg0).dir, EnvGet(v, Path("", "wg0", ".conf")).stem,
         "-rules.sh")

\* systemd: shutil.which("systemctl") finds it.  ifup: "ip link show" of the
\* interface exits 0.  missing: tools that are not installed.  fails / hangs:
\* commands that exit non-zero / never exit.  cfg: WG_CONFIG_PATH.
AtMostOne(S) == {{}} \cup {{x} : x \in S}
AllHosts == [systemd : BOOLEAN, ifup : BOOLEAN, missing : AtMostOne(Tools),
             fails : AtMostOne(Acts), hangs : AtMostOne(Acts), cfg : CfgPaths]

GoodHost == [systemd |-> TRUE, ifup |-> TRUE, missing |-> {}, fails |-> {},
             hangs |-> {}, cfg |-> EtcWg0]
FailingHost == [GoodHost EXCEPT !.fails = {"systemctl start", "rules apply"}]

\* --------------------------------------------------------- SystemService
\* One step of a deployment: the tool it executes, the tools its command
\* line calls in turn, and what the code does when the tool is not found
\* or the command exits non-zero: "skip" (caught, go on) or "raise".
Step(act, tool, needs, onMissing, onFail) ==
    [act |-> act, tool |-> tool, needs |-> needs, onMissing |-> onMissing,
     onFail |-> onFail]

\* _run_command(cmd, check): CalledProcessError is re-raised when check is
\* set, FileNotFoundError is caught and passed over.
run_command(act, tool, check) ==
    Step(act, tool, {}, "skip", IF check THEN "raise" ELSE "skip")

\* _write_config(content, path), and os.chmod
write_config(what) == Step(what, "fs", {}, "raise", "raise")

\* get_command_path(tool): raises when the tool cannot be found
get_command_path(tool) == Step("resolve", tool, {}, "raise", "skip")

\* get_command_path("ip") and "ip link show <interface>" inside try/except
interface_exists(h) == "ip" \notin h.missing /\ h.ifup

restart_service(h, confExists) ==
    (IF ~confExists THEN <<>>
     ELSE IF h.systemd
          THEN <<run_command("systemctl stop", "systemctl", FALSE)>>
          ELSE IF interface_exists(h)
               THEN <<get_command_path("wg-quick"),
                      run_command("wg-quick down", "wg-quick", FALSE)>>
               ELSE <<>>)
    \o <<write_config("write conf")>>
    \o <<IF h.systemd THEN run_command("systemctl start", "systemctl", TRUE)
         ELSE run_command("wg-quick up", "wg-quick", TRUE)>>

\* The syncconf command is run by subprocess.run directly: a missing bash
\* raises, a non-zero exit (CalledProcessError) is caught and passed over.
reload_service(h) ==
    <<write_config("write conf")>>
    \o (IF interface_exists(h)
        THEN <<Step("wg syncconf", "bash", {"wg"}, "raise", "skip")>>
        ELSE restart_service(h, TRUE))

apply_firewall_rules ==
    <<write_config("write rules"), write_config("chmod rules"),
      run_command("rules apply", "bash", TRUE)>>

\* Runs the steps in order on host h; done is what has happened so far.
\* The result is the events and how the run ended: "returned", "raised"
\* (an exception left the steps) or "blocked" (a command never exited:
\* subprocess.run is called without a timeout).
RECURSIVE run_steps(_, _, _)
run_steps(steps, h, done) ==
    IF steps = <<>> THEN [trace |-> done, end |-> "returned"]
    ELSE
      LET st == Head(steps)
          ev(res) == Append(done, [act |-> st.act, res |-> res])
          go(res, how) == IF how = "raise"
                          THEN [trace |-> ev(res), end |-> "raised"]
                          ELSE run_steps(Tail(steps), h, ev(res))
      IN IF st.tool = "fs"
         THEN \* os.makedirs(os.path.dirname(path)) raises on ''
              IF config_path(h.cfg).dir = "" THEN go("failed", "raise")
              ELSE go("ok", "skip")
         ELSE IF st.tool \in h.missing THEN go("missing", st.onMissing)
         ELSE IF st.act \in h.hangs
              THEN [trace |-> ev("hung"), end |-> "blocked"]
         ELSE IF st.act \in h.fails \/ st.needs \cap h.missing # {}
              THEN go("failed", st.onFail)
         ELSE go("ok", "skip")

\* -------------------------------------------------------- _perform_commit
interface_changed(oldConf, conf_content) ==
    ~(Exists(oldConf) /\ get_interface_part(Content(oldConf))
                           = get_interface_part(conf_content))

peers_changed(oldConf, conf_content) ==
    ~(~interface_changed(oldConf, conf_content)
      /\ Content(oldConf) = conf_content)

\* Mutant: the script on disk is never taken as current.
rules_changed_Always(oldRules, rules_content) == TRUE

rules_changed(oldRules, rules_content) ==
    ~(Exists(oldRules) /\ Content(oldRules) = rules_content)

\* Mutant: a changed firewall script is looked at before the peers.
choose_strategy_RulesFirst(ic, pc, rc) ==
    IF ic THEN "full restart"
    ELSE IF rc THEN "firewall update"
    ELSE IF pc THEN "hot reload"
    ELSE "no changes"

\* if interface_changed: ... elif peers_changed: ... elif rules_changed: ...
choose_strategy(ic, pc, rc) ==
    IF ic THEN "full restart"
    ELSE IF pc THEN "hot reload"
    ELSE IF rc THEN "firewall update"
    ELSE "no changes"

\* The steps of _perform_commit inside its try block.
commit_steps(strategy, h, confExists) ==
    <<write_config("write rules"), write_config("chmod rules")>>
    \o (CASE strategy = "full restart" -> restart_service(h, confExists)
          [] strategy = "hot reload" -> reload_service(h) \o apply_firewall_rules
          [] strategy = "firewall update" -> apply_firewall_rules
          [] OTHER -> <<>>)

Wrote(tr, what) ==
    \E i \in DOMAIN tr : tr[i] = [act |-> what, res |-> "ok"]

\* _perform_commit on host h: the files after the call, the status, the
\* strategy chosen and what was done on the host.  Any exception inside the
\* try block gives 'committed_with_warning', here "warning".
perform_commit_on(s, oldConf, oldRules, h) ==
    IF ~s.key
    THEN [conf |-> oldConf, rules |-> oldRules, status |-> "error",
          strategy |-> "none", trace |-> <<>>, end |-> "returned"]
    ELSE
      LET conf_content == render_wg_conf(s)
          rules_content == render_firewall_script(s)
          strategy == choose_strategy(interface_changed(oldConf, conf_content),
                                      peers_changed(oldConf, conf_content),
                                      rules_changed(oldRules, rules_content))
          r == run_steps(commit_steps(strategy, h, Exists(oldConf)), h, <<>>)
      IN [conf |-> IF Wrote(r.trace, "write conf")
                   THEN File(conf_content) ELSE oldConf,
          rules |-> IF Wrote(r.trace, "write rules")
                    THEN File(rules_content) ELSE oldRules,
          status |-> CASE r.end = "blocked" -> "blocked"
                       [] r.end = "raised" -> "warning"
                       [] OTHER -> strategy,
          strategy |-> strategy, trace |-> r.trace, end |-> r.end]

\* _perform_commit: returns the files after the call and the status.
\* toolOk tells whether the external tools of the chosen strategy succeed.
\* This is perform_commit_on on GoodHost (toolOk) and on FailingHost: there
\* every file is written before the first command that can raise.
perform_commit(s, oldConf, oldRules, toolOk) ==
    IF ~s.key
    THEN [conf |-> oldConf, rules |-> oldRules, status |-> "error"]
    ELSE
      LET conf_content == render_wg_conf(s)
          rules_content == render_firewall_script(s)
          strategy == choose_strategy(interface_changed(oldConf, conf_content),
                                      peers_changed(oldConf, conf_content),
                                      rules_changed(oldRules, rules_content))
      IN [conf |-> IF strategy \in {"full restart", "hot reload"}
                   THEN File(conf_content) ELSE oldConf,
          rules |-> File(rules_content),
          status |-> IF strategy = "no changes" \/ toolOk
                     THEN strategy ELSE "warning"]

\* ----------------------------------------------------------- the sidecar
SidecarRecord(tid, status, expires_at) ==
    [valid |-> TRUE, transaction_id |-> tid, status |-> status,
     expires_at |-> expires_at]

\* _save_state: open(SIDECAR_PATH, 'w') and json.dump of the record.  Any
\* exception is caught and printed: "failed" is open() raising (the file is
\* left as it was), "truncated" is the write stopping after open() emptied
\* the file, which leaves text json.load rejects.
Truncated == [valid |-> FALSE, transaction_id |-> None, status |-> "none",
              expires_at |-> 0]
save_state(old, tid, status, expires_at, outcome) ==
    CASE outcome = "written" -> File(SidecarRecord(tid, status, expires_at))
      [] outcome = "failed" -> old
      [] outcome = "truncated" -> File(Truncated)

\* Mutant: the promotion is skipped and the old backup stays.
promote_Skipped(st, bk) == bk

\* shutil.copy2(DB_PATH, LAST_GOOD_DB_PATH): the store becomes the backup.
promote(st, bk) == File(st)

\* _clear_state: os.remove of the sidecar when it exists.
clear_state(sc) == NoFile

\* -------------------------------------------------------------- timers
NewTimer(tid, delay) == [tid |-> tid, fireAt |-> now + delay, st |-> "armed"]

\* Timer.cancel(): stops a timer that has not yet called its function.
Cancel(ts, i) ==
    IF i # None /\ ts[i].st = "armed"
    THEN [ts EXCEPT ![i].st = "cancelled"] ELSE ts

\* ---------------------------------------------------- _trigger_revert_logic
\* Mutant: the files are regenerated but the store is not restored.
trigger_revert_logic_NoRestore(st, bk, oldConf, oldRules, toolOk) ==
    IF Exists(bk)
    THEN LET r == perform_commit(Content(bk), oldConf, oldRules, toolOk)
         IN [store |-> st, conf |-> r.conf, rules |-> r.rules]
    ELSE [store |-> st, conf |-> oldConf, rules |-> oldRules]

\* Restores the store from the backup and regenerates the files from it.
trigger_revert_logic(st, bk, oldConf, oldRules, toolOk) ==
    IF Exists(bk)
    THEN LET r == perform_commit(Content(bk), oldConf, oldRules, toolOk)
         IN [store |-> Content(bk), conf |-> r.conf, rules |-> r.rules]
    ELSE [store |-> st, conf |-> oldConf, rules |-> oldRules]

CountRevert(tid) ==
    IF tid \in Tids THEN [reverts EXCEPT ![tid] = @ + 1] ELSE reverts

\* ------------------------------------------------------------------ Init
Init ==
    /\ up = FALSE
    /\ now = 0
    /\ transaction_id = None
    /\ timer = None
    /\ timers = <<>>
    /\ sidecar = NoFile
    /\ store = FreshStore
    /\ backup = NoFile
    /\ conf = NoFile
    /\ rules = NoFile
    /\ nextId = 0
    /\ lastOp = Op("none", None, "none")
    /\ reverts = [t \in Tids |-> 0]
    /\ confirmed = {}
    /\ aborted = {}
    /\ host = GoodHost
    /\ trace = <<>>
    /\ lock = None
    /\ thr = [t \in Threads |-> Idle]
    /\ io = NoCall

\* ------------------------------------------------------ SafetyManager.init
\* Baseline bootstrap and recovery from the sidecar, at process start.
\* Mutant: a deadline that is reached exactly now counts as not yet elapsed.
RecoveryExpired_Strict(expires_at, t) == expires_at - t < 0

\* remaining <= 0, with remaining = expires_at - time.time()
RecoveryExpired(expires_at, t) == expires_at - t <= 0

\* Mutant: recovery re-arms the callback for a full window.
Remaining_FullWindow(expires_at, t) == Window

\* remaining = expires_at - time.time(), the interval of the re-armed Timer
Remaining(expires_at, t) == expires_at - t

init ==
    /\ ~up
    /\ up' = TRUE
    /\ \E toolOk \in BOOLEAN :
       LET bk == IF ~Exists(backup) THEN File(store) ELSE backup
           sc == IF Exists(sidecar) THEN Content(sidecar) ELSE SidecarRecord(None, "none", 0)
           pending == Exists(sidecar) /\ sc.valid /\ sc.status = "pending"
           r == trigger_revert_logic(store, bk, conf, rules, toolOk)
       IN /\ backup' = bk
          /\ IF pending /\ RecoveryExpired(sc.expires_at, now)
             THEN /\ store' = r.store /\ conf' = r.conf /\ rules' = r.rules
                  /\ sidecar' = clear_state(sidecar)
                  /\ reverts' = CountRevert(sc.transaction_id)
                  /\ UNCHANGED <<transaction_id, timer, timers>>
                  /\ lastOp' = Op("init", sc.transaction_id, "reverted")
             ELSE IF pending
             THEN /\ transaction_id' = sc.transaction_id
                  /\ timers' = Append(timers, NewTimer(sc.transaction_id,
                                          Remaining(sc.expires_at, now)))
                  /\ timer' = Len(timers) + 1
                  /\ UNCHANGED <<store, conf, rules, sidecar, reverts>>
                  /\ lastOp' = Op("init", sc.transaction_id, "resumed")
             ELSE \* no sidecar, a record that is not pending, or one that
                  \* json.load rejects (then the except clause clears it)
                  /\ sidecar' = IF Exists(sidecar) /\ ~sc.valid
                                THEN clear_state(sidecar) ELSE sidecar
                  /\ UNCHANGED <<store, conf, rules, reverts,
                                 transaction_id, timer, timers>>
                  /\ lastOp' = Op("init", None, "idle")
    /\ UNCHANGED aux
    /\ UNCHANGED <<now, nextId, confirmed, aborted>>

\* -------------------------------------------- SafetyManager.start_transaction
\* Mutant: the conflict check is missing.
StartConflict_Never(cur) == FALSE

\* cls._transaction_id is not None
StartConflict(cur) == cur # None

start(outcome) ==
    /\ up
    /\ nextId < MaxTx
    /\ IF StartConflict(transaction_id)
       THEN /\ lastOp' = Op("start", None, "conflict")
            /\ UNCHANGED <<transaction_id, timer, timers, sidecar, nextId>>
       ELSE LET tid == nextId + 1
                cancelled == Cancel(timers, timer)
            IN /\ nextId' = tid
               /\ transaction_id' = tid
               /\ sidecar' = save_state(sidecar, tid, "pending", now + Window,
                                       outcome)
               /\ timers' = Append(cancelled, NewTimer(tid, Window))
               /\ timer' = Len(timers) + 1
               /\ lastOp' = Op("start", tid, "started")
    /\ UNCHANGED aux
    /\ UNCHANGED <<up, now, store, backup, conf, rules, ghost>>

start_transaction == start("written")

\* start_transaction on a file system that rejects or cuts short the write.
start_transaction_fault ==
    /\ ~StartConflict(transaction_id)
    /\ \E outcome \in {"failed", "truncated"} : start(outcome)

\* ------------------------------------------ SafetyManager.confirm_transaction
\* not (cls._transaction_id != transaction_id)
ConfirmMatches(cur, id) == cur = id

confirm_transaction(id) ==
    /\ up
    /\ IF ~ConfirmMatches(transaction_id, id)
       THEN /\ lastOp' = Op("confirm", id, "false")
            /\ UNCHANGED <<transaction_id, timer, timers, sidecar, backup,
                           confirmed>>
       ELSE /\ timers' = Cancel(timers, timer)
            /\ timer' = None
            /\ backup' = promote(store, backup)
            /\ transaction_id' = None
            /\ sidecar' = clear_state(sidecar)
            /\ confirmed' = confirmed \cup ({id} \cap Tids)
            /\ lastOp' = Op("confirm", id, "true")
    /\ UNCHANGED aux
    /\ UNCHANGED <<up, now, store, conf, rules, nextId, reverts, aborted>>

\* -------------------------------------------- SafetyManager.abort_transaction
\* Mutant: abort reverts whether or not a transaction is pending.
AbortReverts_Always(cur) == TRUE

\* if cls._transaction_id:
AbortReverts(cur) == cur # None

abort_transaction ==
    /\ up
    /\ timers' = Cancel(timers, timer)
    /\ timer' = None
    /\ IF AbortReverts(transaction_id)
       THEN \E toolOk \in BOOLEAN :
            LET r == trigger_revert_logic(store, backup, conf, rules, toolOk)
            IN /\ store' = r.store /\ conf' = r.conf /\ rules' = r.rules
               /\ reverts' = CountRevert(transaction_id)
               /\ aborted' = aborted \cup ({transaction_id} \cap Tids)
               /\ transaction_id' = None
               /\ sidecar' = clear_state(sidecar)
               /\ lastOp' = Op("abort", transaction_id, "true")
       ELSE /\ lastOp' = Op("abort", None, "false")
            /\ UNCHANGED <<store, conf, rules, reverts, aborted,
                           transaction_id, sidecar>>
    /\ UNCHANGED aux
    /\ UNCHANGED <<up, now, backup, nextId, confirmed>>

\* ------------------------------------------------ the deadline Timer thread
\* The Timer thread wakes when its interval has passed and calls
\* _auto_revert, which then waits for the lock.
fire(i) ==
    /\ up
    /\ i \in DOMAIN timers
    /\ timers[i].st = "armed"
    /\ now >= timers[i].fireAt
    /\ timers' = [timers EXCEPT ![i].st = "fired"]
    /\ lastOp' = Op("fire", timers[i].tid, "waiting")
    /\ UNCHANGED aux
    /\ UNCHANGED <<up, now, transaction_id, timer, durable, nextId, ghost>>

\* SafetyManager._auto_revert, run under the lock.
\* Mutant: the callback reverts whatever transaction is pending.
AutoRevertMatches_AnyPending(cur, tid) == cur # None

\* not (cls._transaction_id != transaction_id)
AutoRevertMatches(cur, tid) == cur = tid

auto_revert(i) ==
    /\ up
    /\ i \in DOMAIN timers
    /\ timers[i].st = "fired"
    /\ timers' = [timers EXCEPT ![i].st = "done"]
    /\ IF ~AutoRevertMatches(transaction_id, timers[i].tid)
       THEN /\ lastOp' = Op("auto_revert", timers[i].tid, "superseded")
            /\ UNCHANGED <<store, conf, rules, reverts, transaction_id, sidecar>>
       ELSE \E toolOk \in BOOLEAN :
            LET r == trigger_revert_logic(store, backup, conf, rules, toolOk)
            IN /\ store' = r.store /\ conf' = r.conf /\ rules' = r.rules
               /\ reverts' = CountRevert(timers[i].tid)
               /\ transaction_id' = None
               /\ sidecar' = clear_state(sidecar)
               /\ lastOp' = Op("auto_revert", timers[i].tid, "reverted")
    /\ UNCHANGED aux
    /\ UNCHANGED <<up, now, timer, backup, nextId, confirmed, aborted>>

\* --------------------------------------------------- POST /commit (routes.py)
commit_changes ==
    /\ up
    /\ \E toolOk \in BOOLEAN :
       LET r == perform_commit(store, conf, rules, toolOk)
       IN /\ conf' = r.conf
          /\ rules' = r.rules
          /\ lastOp' = Op("commit", None, r.status)
    /\ UNCHANGED aux
    /\ UNCHANGED <<up, now, transaction_id, timer, timers, sidecar, store,
                   backup, nextId, ghost>>

\* ------------------------------- POST /setup/complete (SetupManager.complete_setup)
\* Marks the setup complete, copies the store over the backup and commits.
complete_setup ==
    /\ up
    /\ backup' = File(store)
    /\ \E toolOk \in BOOLEAN :
       LET r == perform_commit(store, conf, rules, toolOk)
       IN /\ conf' = r.conf
          /\ rules' = r.rules
          /\ lastOp' = Op("setup", None, r.status)
    /\ UNCHANGED aux
    /\ UNCHANGED <<up, now, transaction_id, timer, timers, sidecar, store,
                   nextId, ghost>>

\* ------------------------------------- the CRUD layer writing the domain store
edit(s) ==
    /\ up
    /\ s \in Edits
    /\ s # store
    /\ store' = s
    /\ lastOp' = Op("edit", None, "ok")
    /\ UNCHANGED aux
    /\ UNCHANGED <<up, now, transaction_id, timer, timers, sidecar, backup,
                   conf, rules, nextId, ghost>>

\* ------------------------------------------------------------ environment
tick ==
    /\ now + TickLen <= MaxTime
    /\ now' = now + TickLen
    /\ lastOp' = Op("tick", None, "none")
    /\ UNCHANGED aux
    /\ UNCHANGED <<up, transaction_id, timer, timers, durable, nextId, ghost>>

\* The process dies between two operations: everything in memory is lost.
crash ==
    /\ up
    /\ up' = FALSE
    /\ transaction_id' = None
    /\ timer' = None
    /\ timers' = <<>>
    /\ lastOp' = Op("crash", None, "none")
    /\ UNCHANGED aux
    /\ UNCHANGED <<now, durable, nextId, ghost>>

Next ==
    \/ init
    \/ start_transaction
    \/ \E id \in {None} \cup Tids : confirm_transaction(id)
    \/ abort_transaction
    \/ \E i \in 1..(MaxTx + 1) : fire(i)
    \/ \E i \in 1..(MaxTx + 1) : auto_revert(i)
    \/ commit_changes
    \/ complete_setup
    \/ \E s \in Edits : edit(s)
    \/ tick
    \/ crash

Spec == Init /\ [][Next]_vars

\* The Timer thread of a running process does wake up, and the lock is
\* released by every holder, so a fired callback does get to run.
LiveSpec ==
    /\ Spec
    /\ \A i \in 1..(MaxTx + 1) : WF_vars(fire(i)) /\ WF_vars(auto_revert(i))

\* The same program on a file system whose sidecar writes can fail.
NextFault == Next \/ start_transaction_fault
SpecFault == Init /\ [][NextFault]_vars

\* The same program when the process can also die inside a write.
\* start_transaction is killed inside _save_state, after open(..., 'w') has
\* emptied the sidecar and before json.dump has reached the disk.
start_transaction_crash ==
    /\ up
    /\ nextId < MaxTx
    /\ ~StartConflict(transaction_id)
    /\ nextId' = nextId + 1
    /\ sidecar' = save_state(sidecar, nextId + 1, "pending", now + Window,
                            "truncated")
    /\ up' = FALSE
    /\ transaction_id' = None
    /\ timer' = None
    /\ timers' = <<>>
    /\ lastOp' = Op("crash", nextId + 1, "in _save_state")
    /\ UNCHANGED <<now, store, backup, conf, rules, ghost>>
    /\ UNCHANGED aux

NextCrash == Next \/ start_transaction_crash
SpecCrash == Init /\ [][NextCrash]_vars

\* The same program when the process can die inside _auto_revert,
\* abort_transaction or confirm_transaction, between two of their statements.
\* Mutant: the sidecar is removed before the work it stands for.
sidecar_until_done_ClearedFirst(sc) == NoFile

\* _clear_state() is the last statement of the three handlers: at every
\* earlier point the sidecar is as start_transaction wrote it.
sidecar_until_done(sc) == sc

\* The process dies in _auto_revert or abort_transaction: on entry, after
\* the store was restored, or after the redeploy.
revert_crash ==
    /\ up
    /\ transaction_id # None
    /\ \E point \in {"entered", "restored", "redeployed"}, toolOk \in BOOLEAN :
       LET r == trigger_revert_logic(store, backup, conf, rules, toolOk)
       IN /\ store' = IF point = "entered" THEN store ELSE r.store
          /\ conf' = IF point = "redeployed" THEN r.conf ELSE conf
          /\ rules' = IF point = "redeployed" THEN r.rules ELSE rules
    /\ sidecar' = sidecar_until_done(sidecar)
    /\ up' = FALSE
    /\ transaction_id' = None
    /\ timer' = None
    /\ timers' = <<>>
    /\ lastOp' = Op("crash", transaction_id, "in revert")
    /\ UNCHANGED <<now, backup, nextId, ghost>>
    /\ UNCHANGED aux

\* The process dies in confirm_transaction: after the timer was cancelled,
\* or after the promotion.
confirm_crash ==
    /\ up
    /\ transaction_id # None
    /\ \E point \in {"cancelled", "promoted"} :
          backup' = IF point = "promoted" THEN promote(store, backup)
                    ELSE backup
    /\ sidecar' = sidecar_until_done(sidecar)
    /\ up' = FALSE
    /\ transaction_id' = None
    /\ timer' = None
    /\ timers' = <<>>
    /\ lastOp' = Op("crash", transaction_id, "in confirm")
    /\ UNCHANGED <<now, store, conf, rules, nextId, ghost>>
    /\ UNCHANGED aux

NextMidCrash == Next \/ revert_crash \/ confirm_crash
SpecMidCrash == Init /\ [][NextMidCrash]_vars

\* The same program when instance/wireguard.db.last_good can go missing
\* between two operations (removed by hand, or the instance directory is
\* restored without it): the case the else branch of _trigger_revert_logic
\* and the baseline bootstrap of init are written for.
backup_lost ==
    /\ Exists(backup)
    /\ backup' = NoFile
    /\ lastOp' = Op("backup_lost", None, "none")
    /\ UNCHANGED <<up, now, transaction_id, timer, timers, sidecar, store,
                   conf, rules, nextId, ghost>>
    /\ UNCHANGED aux

NextNoBackup == Next \/ backup_lost
SpecNoBackup == Init /\ [][NextNoBackup]_vars

\* ------------------------------------------------ one commit, on any host
\* The interface configs and firewall scripts an earlier commit can have
\* left on disk.
OldConfs == {NoFile} \cup {File(render_wg_conf(s)) : s \in {x \in Stores : x.key}}
OldRules == {NoFile} \cup {File(render_firewall_script(s)) : s \in Stores}

\* The stores a commit can find: the public key is generated from the
\* private key, the endpoint is entered by hand or taken from an import.
CommitStores == {s \in Stores : s.pub => s.key}

\* Hosts on which every command exits, and that differ from the working
\* host in at most one respect, under either service manager and with the
\* interface up or down.
Deviations(h) ==
    Cardinality(h.missing) + Cardinality(h.fails) + Cardinality(h.hangs)
    + (IF h.cfg = EtcWg0 THEN 0 ELSE 1)
Hosts == {h \in AllHosts : Deviations(h) <= 1 /\ h.hangs = {}}

InitCommit ==
    /\ host \in Hosts
    /\ up = TRUE
    /\ now = 0
    /\ transaction_id = None
    /\ timer = None
    /\ timers = <<>>
    /\ sidecar = NoFile
    /\ store \in CommitStores
    /\ backup = File(store)
    /\ conf \in OldConfs
    /\ rules \in OldRules
    /\ nextId = 0
    /\ lastOp = Op("none", None, "none")
    /\ reverts = [t \in Tids |-> 0]
    /\ confirmed = {}
    /\ aborted = {}
    /\ trace = <<>>
    /\ lock = None
    /\ thr = [t \in Threads |-> Idle]
    /\ io = NoCall

\* POST /commit on the host: _perform_commit with its deployment steps.  A
\* call that blocks does not return, so it leaves no result behind.
commit_on_host ==
    /\ up
    /\ lastOp.op = "none"
    /\ LET r == perform_commit_on(store, conf, rules, host)
       IN /\ conf' = r.conf
          /\ rules' = r.rules
          /\ trace' = r.trace
          /\ lastOp' = Op("commit", r.strategy, r.status)
    /\ UNCHANGED <<up, now, transaction_id, timer, timers, sidecar, store,
                   backup, nextId, ghost, io, host, lock, thr>>

NextCommit == commit_on_host
SpecCommit == InitCommit /\ [][NextCommit]_vars

\* POST /commit a second time, with neither the store nor the files touched
\* in between.
commit_again ==
    /\ up
    /\ lastOp.op = "commit"
    /\ LET r == perform_commit_on(store, conf, rules, host)
       IN /\ conf' = r.conf
          /\ rules' = r.rules
          /\ trace' = r.trace
          /\ lastOp' = Op("commit again", r.strategy, r.status)
    /\ UNCHANGED <<up, now, transaction_id, timer, timers, sidecar, store,
                   backup, nextId, ghost, io, host, lock, thr>>

NextRecommit == commit_on_host \/ commit_again
SpecRecommit == InitCommit /\ [][NextRecommit]_vars

\* ----------------------------------------- GET /commit/preview (commit_preview)
\* Renders the store and compares with the files on disk.  old_conf is bound
\* only inside "if os.path.exists(config_path)", and get_peers(old_conf) reads
\* it on every path: with no config on disk the handler raises
\* UnboundLocalError where it would build its summary.
preview_summary(s, oldConf, oldRules) ==
    IF ~Exists(oldConf) THEN [fn |-> "commit_preview", end |-> "raised"]
    ELSE [fn |-> "commit_preview", end |-> "returned",
          modified_interface |->
              get_interface_part(Content(oldConf))
                  # get_interface_part(render_wg_conf(s)),
          modified_peers |-> Content(oldConf) # render_wg_conf(s),
          modified_rules |-> rules_changed(oldRules, render_firewall_script(s))]

commit_preview ==
    /\ up
    /\ lastOp.op = "none"
    /\ io' = preview_summary(store, conf, rules)
    /\ lastOp' = Op("preview", None, io'.end)
    /\ UNCHANGED <<up, now, transaction_id, timer, timers, sidecar, store,
                   backup, conf, rules, nextId, ghost, host, trace, lock, thr>>

SpecPreview == InitCommit /\ [][commit_preview]_vars

\* ------------------------------------------- the handlers, step by step
\* The same handlers with the steps of each thread told apart: waiting for
\* the lock, reading _transaction_id, acting on it, redeploying, releasing.
\* POST /commit takes no lock.
Inside == {"locked", "act", "reverting", "unlock"}
Deploying == {"deploying", "reverting"}
At(t, pc) == thr[t].pc = pc
Goto(t, pc) == [thr EXCEPT ![t].pc = pc]

\* Mutant: the handlers do not wait for the lock.
LockFree_Always(l) == TRUE

\* threading.Lock: acquire returns when no thread holds it
LockFree(l) == l = None

\* A configured server with its files deployed and the store promoted; in
\* the initial state a client has been added to the store since.
ConfiguredStore == [key |-> TRUE, pub |-> TRUE, endpoint |-> TRUE,
                    net |-> 0, cli |-> 0, rul |-> 0]
LockHosts == {GoodHost, [GoodHost EXCEPT !.hangs = {"rules apply"}]}

InitLock ==
    /\ host \in LockHosts
    /\ up = TRUE
    /\ now = 0
    /\ transaction_id = None
    /\ timer = None
    /\ timers = <<>>
    /\ sidecar = NoFile
    /\ store = [ConfiguredStore EXCEPT !.cli = MaxVer]
    /\ backup = File(ConfiguredStore)
    /\ conf = File(render_wg_conf(ConfiguredStore))
    /\ rules = File(render_firewall_script(ConfiguredStore))
    /\ nextId = 0
    /\ lastOp = Op("none", None, "none")
    /\ reverts = [t \in Tids |-> 0]
    /\ confirmed = {}
    /\ aborted = {}
    /\ trace = <<>>
    /\ lock = None
    /\ thr = [t \in Threads |-> Idle]
    /\ io = NoCall

\* A request arrives and its thread enters the handler, up to "with cls._lock".
call(t, op, arg) ==
    /\ t \in ReqThreads
    /\ thr[t] = Idle
    /\ op = "start" =>
          nextId + Cardinality({u \in ReqThreads : thr[u].op = "start"}) < MaxTx
    /\ thr' = [thr EXCEPT ![t] = Thread("wait", op, arg, None)]
    /\ UNCHANGED <<up, now, transaction_id, timer, timers, durable, nextId,
                   lastOp, ghost, io, host, trace, lock>>

\* The Timer thread wakes and calls _auto_revert(transaction_id).
timer_fires(i) ==
    /\ i \in DOMAIN timers
    /\ timers[i].st = "armed"
    /\ now >= timers[i].fireAt
    /\ timers' = [timers EXCEPT ![i].st = "fired"]
    /\ thr' = [thr EXCEPT ![TimerThread(i)] =
                  Thread("wait", "auto_revert", timers[i].tid, None)]
    /\ UNCHANGED <<up, now, transaction_id, timer, durable, nextId, lastOp,
                   ghost, io, host, trace, lock>>

\* with cls._lock: __enter__
acquire(t) ==
    /\ At(t, "wait")
    /\ LockFree(lock)
    /\ lock' = t
    /\ thr' = Goto(t, "locked")
    /\ UNCHANGED <<up, now, transaction_id, timer, timers, durable, nextId,
                   lastOp, ghost, io, host, trace>>

\* The handler reads cls._transaction_id for its check.
read_id(t) ==
    /\ At(t, "locked")
    /\ thr' = [thr EXCEPT ![t].pc = "act", ![t].seen = transaction_id]
    /\ UNCHANGED <<up, now, transaction_id, timer, timers, durable, nextId,
                   lastOp, ghost, io, host, trace, lock>>

\* start_transaction after its check
start_body(t) ==
    /\ At(t, "act") /\ thr[t].op = "start"
    /\ IF StartConflict(thr[t].seen)
       THEN UNCHANGED <<transaction_id, timer, timers, sidecar, nextId>>
       ELSE LET tid == nextId + 1
            IN /\ nextId' = tid
               /\ transaction_id' = tid
               /\ sidecar' = save_state(sidecar, tid, "pending", now + Window,
                                       "written")
               /\ timers' = Append(Cancel(timers, timer), NewTimer(tid, Window))
               /\ timer' = Len(timers) + 1
    /\ thr' = Goto(t, "unlock")
    /\ UNCHANGED <<up, now, store, backup, conf, rules, lastOp, ghost, io, host,
                   trace, lock>>

\* confirm_transaction after its check
confirm_body(t) ==
    /\ At(t, "act") /\ thr[t].op = "confirm"
    /\ IF ~ConfirmMatches(thr[t].seen, thr[t].arg)
       THEN UNCHANGED <<transaction_id, timer, timers, sidecar, backup>>
       ELSE /\ timers' = Cancel(timers, timer)
            /\ timer' = None
            /\ backup' = promote(store, backup)
            /\ transaction_id' = None
            /\ sidecar' = clear_state(sidecar)
    /\ thr' = Goto(t, "unlock")
    /\ UNCHANGED <<up, now, store, conf, rules, nextId, lastOp, ghost, io, host,
                   trace, lock>>

\* abort_transaction: cancels the timer; with a transaction pending it goes
\* on to _trigger_revert_logic, which first copies the backup over the store.
abort_body(t) ==
    /\ At(t, "act") /\ thr[t].op = "abort"
    /\ timers' = Cancel(timers, timer)
    /\ timer' = None
    /\ IF AbortReverts(thr[t].seen)
       THEN /\ store' = IF Exists(backup) THEN Content(backup) ELSE store
            /\ thr' = Goto(t, "reverting")
       ELSE /\ thr' = Goto(t, "unlock")
            /\ UNCHANGED store
    /\ UNCHANGED <<up, now, transaction_id, sidecar, backup, conf, rules,
                   nextId, lastOp, ghost, io, host, trace, lock>>

\* _auto_revert after its check
auto_revert_body(t) ==
    /\ At(t, "act") /\ thr[t].op = "auto_revert"
    /\ IF AutoRevertMatches(thr[t].seen, thr[t].arg)
       THEN /\ store' = IF Exists(backup) THEN Content(backup) ELSE store
            /\ thr' = Goto(t, "reverting")
       ELSE /\ thr' = Goto(t, "unlock")
            /\ UNCHANGED store
    /\ UNCHANGED <<up, now, transaction_id, timer, timers, sidecar, backup,
                   conf, rules, nextId, lastOp, ghost, io, host, trace, lock>>

\* The rest of _trigger_revert_logic and of its caller: _perform_commit on
\* the restored store, then _transaction_id = None and _clear_state.  A
\* command that never exits leaves the thread inside subprocess.run.
revert_redeploy(t) ==
    /\ At(t, "reverting")
    /\ LET r == perform_commit_on(store, conf, rules, host)
       IN /\ conf' = r.conf
          /\ rules' = r.rules
          /\ IF r.end = "blocked"
             THEN /\ thr' = Goto(t, "blocked")
                  /\ UNCHANGED <<transaction_id, sidecar>>
             ELSE /\ thr' = Goto(t, "unlock")
                  /\ transaction_id' = None
                  /\ sidecar' = clear_state(sidecar)
    /\ UNCHANGED <<up, now, timer, timers, store, backup, nextId, lastOp,
                   ghost, io, host, trace, lock>>

\* with cls._lock: __exit__, and the handler returns
release(t) ==
    /\ At(t, "unlock")
    /\ lock' = None
    /\ thr' = [thr EXCEPT ![t] = Idle]
    /\ timers' = [i \in DOMAIN timers |->
                    IF t = TimerThread(i) THEN [timers[i] EXCEPT !.st = "done"]
                    ELSE timers[i]]
    /\ UNCHANGED <<up, now, transaction_id, timer, durable, nextId, lastOp,
                   ghost, io, host, trace>>

\* POST /commit: _perform_commit starts on a configured store, without
\* looking at the lock or at _transaction_id.
commit_begin(t) ==
    /\ t \in ReqThreads
    /\ thr[t] = Idle
    /\ store.key
    /\ thr' = [thr EXCEPT ![t] = Thread("deploying", "commit", None, None)]
    /\ UNCHANGED <<up, now, transaction_id, timer, timers, durable, nextId,
                   lastOp, ghost, io, host, trace, lock>>

commit_end(t) ==
    /\ At(t, "deploying")
    /\ LET r == perform_commit_on(store, conf, rules, host)
       IN /\ conf' = r.conf
          /\ rules' = r.rules
          /\ thr' = IF r.end = "blocked" THEN Goto(t, "blocked")
                    ELSE [thr EXCEPT ![t] = Idle]
    /\ UNCHANGED <<up, now, transaction_id, timer, timers, sidecar, store,
                   backup, nextId, lastOp, ghost, io, host, trace, lock>>

NextLock ==
    \/ \E t \in ReqThreads : call(t, "start", None)
    \/ \E t \in ReqThreads, id \in Tids : call(t, "confirm", id)
    \/ \E t \in ReqThreads : call(t, "abort", None)
    \/ \E i \in 1..MaxTx : timer_fires(i)
    \/ \E t \in Threads : acquire(t)
    \/ \E t \in Threads : read_id(t)
    \/ \E t \in Threads : start_body(t)
    \/ \E t \in Threads : confirm_body(t)
    \/ \E t \in Threads : abort_body(t)
    \/ \E t \in Threads : auto_revert_body(t)
    \/ \E t \in Threads : revert_redeploy(t)
    \/ \E t \in Threads : release(t)
    \/ \E t \in ReqThreads : commit_begin(t)
    \/ \E t \in ReqThreads : commit_end(t)
    \/ tick

SpecLock == InitLock /\ [][NextLock]_vars

\* A thread that can take its next step takes it: the interpreter switches
\* between the threads, and a command that exits lets its caller go on.
FairSpecLock ==
    /\ SpecLock
    /\ \A t \in Threads :
          /\ WF_vars(read_id(t))
          /\ WF_vars(start_body(t)) /\ WF_vars(confirm_body(t))
          /\ WF_vars(abort_body(t)) /\ WF_vars(auto_revert_body(t))
          /\ WF_vars(revert_redeploy(t))
          /\ WF_vars(release(t))
          /\ WF_vars(commit_end(t))

TypeOK ==
    /\ up \in BOOLEAN
    /\ now \in 0..MaxTime
    /\ transaction_id \in {None} \cup Tids
    /\ timer \in {None} \cup DOMAIN timers
    /\ nextId \in 0..MaxTx

\* ============================================================ the helpers
\* The helpers below read their arguments only.  Each is applied once to
\* arguments drawn at the start; the server's own state stays as it is.
server == <<up, now, transaction_id, timer, timers, sidecar, store, backup,
            conf, rules, nextId, lastOp, reverts, confirmed, aborted,
            host, trace, lock, thr>>

Asked(fn, in) == [fn |-> fn, in |-> in]
Answered == "res" \in DOMAIN io

ServerIdle ==
    /\ up = TRUE
    /\ now = 0
    /\ transaction_id = None
    /\ timer = None
    /\ timers = <<>>
    /\ sidecar = NoFile
    /\ store = FreshStore
    /\ backup = File(FreshStore)
    /\ conf = NoFile
    /\ rules = NoFile
    /\ nextId = 0
    /\ lastOp = Op("none", None, "none")
    /\ reverts = [t \in Tids |-> 0]
    /\ confirmed = {}
    /\ aborted = {}
    /\ host = GoodHost
    /\ trace = <<>>
    /\ lock = None
    /\ thr = [t \in Threads |-> Idle]

InitHelper(calls) == io \in calls /\ ServerIdle

answer(fn, res) ==
    /\ io.fn = fn
    /\ ~Answered
    /\ io' = [fn |-> fn, in |-> io.in, res |-> res]
    /\ UNCHANGED server

Returned(v) == [end |-> "returned", out |-> v]
Raised == [end |-> "raised"]

\* ------------------------------------- IPManager.find_next_available_octet
\* for i in range(2, 255)
OctetFirst == 2
OctetStop == 255

\* The octets the arguments are built from: PoolSpan octets on each side of
\* both ends of the range.  A set of octets is a subset of the pool, or
\* everything but such a subset.
PoolSpan == 1
OctetPool == ((OctetFirst - PoolSpan)..(OctetFirst + PoolSpan - 1))
             \cup ((OctetStop - PoolSpan)..(OctetStop + PoolSpan - 1))
SparseOctets == SUBSET OctetPool
DenseOctets == {(0..(OctetStop + PoolSpan)) \ S : S \in SUBSET OctetPool}

\* The loop "for i in range(lo, hi): if i not in used: return i", falling
\* through to the raise.  The range is walked upward in two halves, the lower
\* one first, which visits the same i in the same order.
RECURSIVE first_free(_, _, _)
first_free(lo, hi, used) ==
    IF lo >= hi THEN Raised
    ELSE IF lo + 1 = hi
         THEN IF lo \notin used THEN Returned(lo) ELSE Raised
         ELSE LET mid == (lo + hi) \div 2
                  low == first_free(lo, mid, used)
              IN IF low.end = "returned" THEN low
                 ELSE first_free(mid, hi, used)

\* Mutant: the exclude argument is ignored.
find_next_available_octet_NoExclude(used, exclude) ==
    first_free(OctetFirst, OctetStop, used)

\* used is get_used_octets(); exclude is None or a collection, {} here for
\* both None and the empty one ("if exclude:").
find_next_available_octet(used, exclude) ==
    first_free(OctetFirst, OctetStop,
               IF exclude # {} THEN used \cup exclude ELSE used)

InitOctet ==
    InitHelper({Asked("find_next_available_octet",
                      [used |-> u, exclude |-> e]) :
                   u \in SparseOctets \cup DenseOctets, e \in SparseOctets})

call_find_next_available_octet ==
    answer("find_next_available_octet",
           find_next_available_octet(io.in.used, io.in.exclude))

SpecOctet == InitOctet /\ [][call_find_next_available_octet]_vars

\* ---------------------- IPManager.validate_octet_for_network, get_client_ip
\* An address or a network in text is its four decimal parts (and the prefix
\* length); an ipaddress object is the number.  Networks are drawn below
\* 128.0.0.0 with a prefix of at least 16 bits.
IPv4(parts) == ((parts[1] * 256 + parts[2]) * 256 + parts[3]) * 256 + parts[4]
Dotted(a) == <<a \div (256 * 256 * 256), (a \div (256 * 256)) % 256,
               (a \div 256) % 256, a % 256>>

\* ipaddress.ip_address(text): ValueError unless every part is 0..255.
ip_address(parts) ==
    IF \A i \in 1..4 : parts[i] \in 0..255
    THEN Returned(IPv4(parts)) ELSE Raised

\* ipaddress.ip_network(text), strict: ValueError when host bits are set.
ip_network(cidr) ==
    LET a == ip_address(cidr.parts)
    IN IF a.end = "raised" \/ cidr.len \notin 0..32 THEN Raised
       ELSE LET size == 2 ^ (32 - cidr.len)
            IN IF a.out % size # 0 THEN Raised
               ELSE Returned([network_address |-> a.out,
                              broadcast_address |-> a.out + size - 1,
                              prefixlen |-> cidr.len])

\* parts = str(net.network_address).split('.'); parts[-1] = str(octet)
substitute(net, octet) == [Dotted(net.network_address) EXCEPT ![4] = octet]

\* Mutant: the broadcast address is accepted.
validate_octet_for_network_Broadcast(cidr, octet) ==
    LET net == ip_network(cidr)
    IN IF net.end = "raised" THEN FALSE
       ELSE LET c == ip_address(substitute(net.out, octet))
            IN IF c.end = "raised" THEN FALSE
               ELSE /\ net.out.network_address <= c.out
                    /\ c.out <= net.out.broadcast_address
                    /\ c.out # net.out.network_address

validate_octet_for_network(cidr, octet) ==
    LET net == ip_network(cidr)
    IN IF net.end = "raised" THEN FALSE
       ELSE LET c == ip_address(substitute(net.out, octet))
            IN IF c.end = "raised" THEN FALSE
               ELSE /\ net.out.network_address <= c.out
                    /\ c.out <= net.out.broadcast_address
                    /\ c.out # net.out.network_address
                    /\ c.out # net.out.broadcast_address

\* f"{ip_str}/32": the text is returned as built, whatever the octet.
get_client_ip(cidr, octet) ==
    LET net == ip_network(cidr)
    IN IF net.end = "raised" THEN Raised
       ELSE Returned([parts |-> substitute(net.out, octet), len |-> 32])

\* Network.cidr and Client.octet as stored: third bytes up to MaxThird, last
\* bytes and prefix lengths on both sides of the byte boundary.
MaxThird == 1
Cidrs == [parts : {<<10, 0, t, l>> : t \in 0..MaxThird,
                                     l \in {0, 1, 4, 128, 252, 254, 255}},
          len : {16, 23, 24, 25, 30, 31, 32}]
ProbeOctets == {-1, 0, 1, 2, 3, 127, 128, 129, 253, 254, 255, 256}

InitAddress ==
    InitHelper({Asked(fn, [cidr |-> n, octet |-> o]) :
                   fn \in {"validate_octet_for_network", "get_client_ip"},
                   n \in Cidrs, o \in ProbeOctets})

call_validate_octet_for_network ==
    answer("validate_octet_for_network",
           Returned(validate_octet_for_network(io.in.cidr, io.in.octet)))

call_get_client_ip ==
    answer("get_client_ip", get_client_ip(io.in.cidr, io.in.octet))

NextAddress == call_validate_octet_for_network \/ call_get_client_ip
SpecAddress == InitAddress /\ [][NextAddress]_vars

\* ---------------------------------- ConfigRenderer.render_iptables_commands
\* A command is the list of its options, each a pair of flag and value, and
\* the place in the input of the rule it was made for (None for the fixed
\* commands around the rules).
Unspecified == [parts |-> <<>>, len |-> 0]
Cmd(rule, parts) == [rule |-> rule, parts |-> parts]

\* next((c for c in clients if c.id == id), None), as a list of at most one
find_client(clients, id) ==
    LET hits == {i \in DOMAIN clients : clients[i].id = id}
    IN IF hits = {} THEN <<>>
       ELSE <<clients[CHOOSE i \in hits : \A j \in hits : i <= j]>>

\* [get_client_ip(net, client) for net in client.networks]
client_ips(c) ==
    [i \in DOMAIN c.networks |-> get_client_ip(c.networks[i].cidr, c.octet).out]

source_ips(clients, rule) ==
    IF rule.source_client_id # None
    THEN LET c == find_client(clients, rule.source_client_id)
         IN IF c = <<>> THEN <<>> ELSE client_ips(c[1])
    ELSE <<Unspecified>>

dest_ips(clients, rule) ==
    IF rule.dest_client_id # None
    THEN LET c == find_client(clients, rule.dest_client_id)
         IN IF c = <<>> THEN <<>> ELSE client_ips(c[1])
    ELSE IF rule.dest_cidr # Unspecified THEN <<rule.dest_cidr>>
    ELSE <<Unspecified>>

\* The body of the two inner loops: one command for src_ip and d_ip.
rule_command(rule, src_ip, d_ip) ==
    Cmd(rule.id,
        << <<"-A", "WG_ACCESS_TEMP">>, <<"-i", "wg0">> >>
        \o (IF src_ip # Unspecified THEN << <<"-s", src_ip>> >> ELSE <<>>)
        \o (IF d_ip # Unspecified THEN << <<"-d", d_ip>> >> ELSE <<>>)
        \o (IF rule.proto \notin {"", "all"}
            THEN << <<"-p", rule.proto>> >> ELSE <<>>)
        \o (IF rule.port # None /\ rule.proto \in {"tcp", "udp"}
            THEN << <<"--dport", rule.port>> >> ELSE <<>>)
        \o << <<"-j", rule.action>> >>)

\* for src_ip in source_ips: for d_ip in dest_ips: ...
rule_commands(clients, rule) ==
    LET src == source_ips(clients, rule)
        dst == dest_ips(clients, rule)
    IN [k \in 1..(Len(src) * Len(dst)) |->
           rule_command(rule, src[((k - 1) \div Len(dst)) + 1],
                              dst[((k - 1) % Len(dst)) + 1])]

\* key=lambda r: 0 if r.action == 'DROP' else 1
sort_key(r) == IF r.action = "DROP" THEN 0 ELSE 1

\* Mutant: the rules are taken in the order of the input.
sorted_rules_Unsorted(rs) == rs

\* sorted(rules, key=...): stable, each rule goes behind the rules before it
\* whose key is not greater.
RECURSIVE sorted_rules(_)
sorted_rules(rs) ==
    IF rs = <<>> THEN <<>>
    ELSE LET head == sorted_rules(SubSeq(rs, 1, Len(rs) - 1))
             x == rs[Len(rs)]
             p == Cardinality({i \in DOMAIN head :
                                  sort_key(head[i]) <= sort_key(x)})
         IN SubSeq(head, 1, p) \o <<x>> \o SubSeq(head, p + 1, Len(head))

RECURSIVE commands_of(_, _)
commands_of(clients, rs) ==
    IF rs = <<>> THEN <<>>
    ELSE rule_commands(clients, Head(rs)) \o commands_of(clients, Tail(rs))

\* The up list: global setup, the temp chain, the rules, the swap.
render_iptables_commands(clients, rs) ==
    << Cmd(None, << <<"-P", "FORWARD DROP">> >>),
       Cmd(None, << <<"-C", "FORWARD conntrack">> >>),
       Cmd(None, << <<"-N", "WG_ACCESS_TEMP">> >>) >>
    \o commands_of(clients, sorted_rules(rs))
    \o << Cmd(None, << <<"-I", "FORWARD -j WG_ACCESS_TEMP">> >>),
          Cmd(None, << <<"-D", "FORWARD -j WG_ACCESS_CONTROL">> >>),
          Cmd(None, << <<"-F", "WG_ACCESS_CONTROL">> >>),
          Cmd(None, << <<"-X", "WG_ACCESS_CONTROL">> >>),
          Cmd(None, << <<"-E", "WG_ACCESS_TEMP WG_ACCESS_CONTROL">> >>) >>

\* The stored data the rules are rendered for: a client in two networks and
\* a client in none; rules from no client or from either, to anywhere, to a
\* literal CIDR or to the first client.
Net(parts, len) == [cidr |-> [parts |-> parts, len |-> len]]
Client(id, name, enabled, octet, networks, routes) ==
    [id |-> id, name |-> name, enabled |-> enabled, octet |-> octet,
     networks |-> networks, routes |-> routes]
FirewallClients ==
    << Client(1, "a", TRUE, 5,
              <<Net(<<10, 0, 0, 0>>, 24), Net(<<10, 0, 1, 0>>, 24)>>, <<>>),
       Client(2, "b", TRUE, 6, <<>>, <<>>) >>
RuleKinds ==
    {[id |-> None, action |-> a, source_client_id |-> s,
      dest_client_id |-> d.client, dest_cidr |-> d.cidr,
      proto |-> d.proto, port |-> d.port] :
        a \in {"ACCEPT", "DROP"}, s \in {None, 1, 2},
        d \in {[client |-> None, cidr |-> Unspecified,
                proto |-> "all", port |-> None],
               [client |-> None, cidr |-> [parts |-> <<8, 8, 8, 8>>, len |-> 32],
                proto |-> "udp", port |-> 53],
               [client |-> 1, cidr |-> Unspecified,
                proto |-> "icmp", port |-> 53]}}
MaxRules == 3
Numbered(ks) == [i \in DOMAIN ks |-> [ks[i] EXCEPT !.id = i]]

InitIptables ==
    /\ \E n \in 0..MaxRules : \E ks \in [1..n -> RuleKinds] :
          io = Asked("render_iptables_commands",
                     [clients |-> FirewallClients, rules |-> Numbered(ks)])
    /\ ServerIdle

call_render_iptables_commands ==
    answer("render_iptables_commands",
           Returned(render_iptables_commands(io.in.clients, io.in.rules)))

SpecIptables == InitIptables /\ [][call_render_iptables_commands]_vars

\* -------------------------------- ConfigRenderer.render_wg_conf, the peers
\* The lines render_wg_conf appends for the clients, each line a key and its
\* value: the markers carry the client's name, AllowedIPs the joined list.
Line(k, v) == [k |-> k, v |-> v]

allowed_ips(c) ==
    client_ips(c) \o [i \in DOMAIN c.routes |-> c.routes[i].target_cidr]

peer_block(c) ==
    <<Line("### begin", c.name), Line("[Peer]", ""),
      Line("PublicKey", c.public_key)>>
    \o (IF c.preshared_key # "" THEN <<Line("PresharedKey", c.preshared_key)>>
        ELSE <<>>)
    \o <<Line("AllowedIPs", allowed_ips(c)), Line("### end", c.name),
         Line("", "")>>

\* Mutant: disabled clients are rendered too.
RECURSIVE peer_blocks_All(_)
peer_blocks_All(clients) ==
    IF clients = <<>> THEN <<>>
    ELSE peer_block(Head(clients)) \o peer_blocks_All(Tail(clients))

\* for client in clients: if not client.enabled: continue
RECURSIVE peer_blocks(_)
peer_blocks(clients) ==
    IF clients = <<>> THEN <<>>
    ELSE (IF Head(clients).enabled THEN peer_block(Head(clients)) ELSE <<>>)
         \o peer_blocks(Tail(clients))

\* The stored clients: enabled or not, with or without a preshared key, in
\* no, one or two networks, owning a route or none; the i-th client has id
\* i, its own name, keys and octet.
Route(parts, len) == [target_cidr |-> [parts |-> parts, len |-> len]]
ClientKinds ==
    [enabled : BOOLEAN, psk : BOOLEAN,
     networks : {<<>>, <<Net(<<10, 0, 0, 0>>, 24)>>,
                 <<Net(<<10, 0, 0, 0>>, 24), Net(<<10, 0, 1, 0>>, 24)>>},
     routes : {<<>>, <<Route(<<192, 168, 1, 0>>, 24)>>}]
MaxClients == 2
Stored(ks) ==
    [i \in DOMAIN ks |->
        [id |-> i, name |-> <<"client", i>>, enabled |-> ks[i].enabled,
         public_key |-> <<"pub", i>>,
         preshared_key |-> IF ks[i].psk THEN <<"psk", i>> ELSE "",
         octet |-> OctetFirst + i - 1,
         networks |-> ks[i].networks, routes |-> ks[i].routes]]

InitPeers ==
    /\ \E n \in 0..MaxClients : \E ks \in [1..n -> ClientKinds] :
          io = Asked("render_wg_conf", [clients |-> Stored(ks)])
    /\ ServerIdle

call_render_wg_conf ==
    answer("render_wg_conf", Returned(peer_blocks(io.in.clients)))

SpecPeers == InitPeers /\ [][call_render_wg_conf]_vars

\* ------------------------- ConfigRenderer.render_client_config (download)
\* A client's configuration file, as far as routing goes: the PostUp and
\* PostDown commands of its [Interface] section and the AllowedIPs of its
\* [Peer] section. A snippet names the CIDR whose interface it looks up.
Sysctl == [cmd |-> "sysctl -w net.ipv4.ip_forward=1"]
up_cmd(cidr) == [cmd |-> "nat -A", cidr |-> cidr]
down_cmd(cidr) == [cmd |-> "nat -D", cidr |-> cidr]
AnyAddress == [parts |-> <<0, 0, 0, 0>>, len |-> 0]

\* for cidr in other_routes: if cidr not in allowed_ips_list: append
RECURSIVE append_missing(_, _)
append_missing(list, more) ==
    IF more = <<>> THEN list
    ELSE append_missing(
            IF \E i \in DOMAIN list : list[i] = Head(more) THEN list
            ELSE Append(list, Head(more)),
            Tail(more))

render_client_config(client, other_routes) ==
    LET own_routes == [i \in DOMAIN client.routes |->
                          client.routes[i].target_cidr]
        nets == [i \in DOMAIN client.networks |-> client.networks[i].cidr]
        allowed_ips_list == append_missing(nets, other_routes)
    IN [post_up |-> IF own_routes = <<>> THEN <<>>
                    ELSE <<Sysctl>> \o [i \in DOMAIN own_routes |->
                                          up_cmd(own_routes[i])],
        post_down |-> [i \in DOMAIN own_routes |-> down_cmd(own_routes[i])],
        allowed_ips |-> IF allowed_ips_list = <<>> THEN <<AnyAddress>>
                        ELSE allowed_ips_list]

\* Route.query.filter(Route.via_client_id != client.id): the target CIDRs of
\* the rows of every other client, in table order
RECURSIVE other_routes_of(_, _)
other_routes_of(clients, id) ==
    IF clients = <<>> THEN <<>>
    ELSE (IF Head(clients).id = id THEN <<>>
          ELSE [i \in DOMAIN Head(clients).routes |->
                   Head(clients).routes[i].target_cidr])
         \o other_routes_of(Tail(clients), id)

download_client_config(db, client_id) ==
    LET c == find_client(db.clients, client_id)
    IN IF c = <<>> THEN [end |-> "404"]
       ELSE IF ~db.configured THEN [end |-> "400"]
       ELSE Returned(render_client_config(
                        c[1], other_routes_of(db.clients, client_id)))

\* The stored clients of a download: in no, one or two networks, owning up
\* to MaxRoutes Route rows (the table has no uniqueness constraint on a
\* row's CIDR) out of two routed CIDRs.
MaxRoutes == 2
RoutedCidrs == {Route(<<192, 168, 50, 0>>, 24), Route(<<192, 168, 60, 0>>, 24)}
GatewayKinds ==
    [networks : {<<>>, <<Net(<<10, 0, 0, 0>>, 24)>>,
                 <<Net(<<10, 0, 0, 0>>, 24), Net(<<10, 0, 1, 0>>, 24)>>},
     routes : UNION {[1..k -> RoutedCidrs] : k \in 0..MaxRoutes}]
Gateways(ks) ==
    [i \in DOMAIN ks |->
        [id |-> i, name |-> <<"client", i>>, octet |-> OctetFirst + i - 1,
         networks |-> ks[i].networks, routes |-> ks[i].routes]]

InitDownload ==
    /\ \E n \in 0..MaxClients : \E ks \in [1..n -> GatewayKinds] :
       \E id \in 1..MaxClients : \E configured \in BOOLEAN :
          io = Asked("download_client_config",
                     [db |-> [clients |-> Gateways(ks),
                              configured |-> configured],
                      client_id |-> id])
    /\ ServerIdle

call_download_client_config ==
    answer("download_client_config",
           download_client_config(io.in.db, io.in.client_id))

SpecDownload == InitDownload /\ [][call_download_client_config]_vars

\* ------------------------------------- the rules script run on the host
\* The kernel's filter table as the script sees it: the FORWARD policy, the
\* targets of FORWARD's rules in order, and the two chains of the script,
\* each absent or holding the rule commands appended to it.
CHAIN_NAME == "WG_ACCESS_CONTROL"
TEMP_CHAIN == "WG_ACCESS_TEMP"
Conntrack == "conntrack ACCEPT"
NoChain == [exists |-> FALSE, rules |-> <<>>]
EmptyChain == [exists |-> TRUE, rules |-> <<>>]
Pristine ==
    [policy |-> "ACCEPT", FORWARD |-> <<>>,
     chains |-> [n \in {CHAIN_NAME, TEMP_CHAIN} |-> NoChain]]

Jumps(fw, target) == {i \in DOMAIN fw.FORWARD : fw.FORWARD[i] = target}
without_first(list, target) ==
    LET hits == {i \in DOMAIN list : list[i] = target}
        k == CHOOSE i \in hits : \A j \in hits : i <= j
    IN SubSeq(list, 1, k - 1) \o SubSeq(list, k + 1, Len(list))

\* One line of the script: the iptables command and what follows its ||.
\* The result is the table afterwards and the exit status of the line.
run_line(fw, cmd) ==
    LET flag == cmd.parts[1][1]
        arg == cmd.parts[1][2]
        ok(t) == [fw |-> t, ok |-> TRUE]
        failed == [fw |-> fw, ok |-> FALSE]
        live == fw.chains[CHAIN_NAME]
        temp == fw.chains[TEMP_CHAIN]
    IN CASE flag = "-P" ->
              ok([fw EXCEPT !.policy = IF arg = "FORWARD DROP" THEN "DROP"
                                       ELSE "ACCEPT"])
         [] flag = "-C" ->
              \* -C FORWARD ... || -I FORWARD ...
              IF Jumps(fw, Conntrack) # {} THEN ok(fw)
              ELSE ok([fw EXCEPT !.FORWARD = <<Conntrack>> \o @])
         [] flag = "-N" ->
              \* -N TEMP || -F TEMP
              ok([fw EXCEPT !.chains[TEMP_CHAIN] = EmptyChain])
         [] flag = "-A" ->
              IF temp.exists
              THEN ok([fw EXCEPT !.chains[TEMP_CHAIN].rules = Append(@, cmd)])
              ELSE failed
         [] flag = "-I" ->
              IF temp.exists
              THEN ok([fw EXCEPT !.FORWARD = <<TEMP_CHAIN>> \o @])
              ELSE failed
         [] flag = "-D" ->
              \* ... || true
              IF Jumps(fw, CHAIN_NAME) # {}
              THEN ok([fw EXCEPT !.FORWARD = without_first(@, CHAIN_NAME)])
              ELSE ok(fw)
         [] flag = "-F" ->
              IF live.exists
              THEN ok([fw EXCEPT !.chains[CHAIN_NAME] = EmptyChain])
              ELSE ok(fw)
         [] flag = "-X" ->
              \* a chain still referenced or not empty cannot be deleted
              IF live.exists /\ live.rules = <<>> /\ Jumps(fw, CHAIN_NAME) = {}
              THEN ok([fw EXCEPT !.chains[CHAIN_NAME] = NoChain])
              ELSE ok(fw)
         [] flag = "-E" ->
              \* the rename fails if the new name is taken; jumps to the
              \* chain follow it
              IF temp.exists /\ ~live.exists
              THEN ok([fw EXCEPT
                         !.chains = [n \in {CHAIN_NAME, TEMP_CHAIN} |->
                                        IF n = CHAIN_NAME THEN temp
                                        ELSE NoChain],
                         !.FORWARD = [i \in DOMAIN @ |->
                                        IF @[i] = TEMP_CHAIN THEN CHAIN_NAME
                                        ELSE @[i]]])
              ELSE failed

\* The down list of render_iptables_commands.
iptables_down ==
    << Cmd(None, << <<"-D", "FORWARD -j WG_ACCESS_CONTROL">> >>),
       Cmd(None, << <<"-F", "WG_ACCESS_CONTROL">> >>),
       Cmd(None, << <<"-X", "WG_ACCESS_CONTROL">> >>),
       Cmd(None, << <<"-P", "FORWARD ACCEPT">> >>) >>

\* The rule lists the script is rendered from in turn: one ACCEPT rule of a
\* client in two networks, then the same with a DROP rule added.
RuleLists ==
    << Numbered(<< [id |-> None, action |-> "ACCEPT", source_client_id |-> 1,
                    dest_client_id |-> None, dest_cidr |-> Unspecified,
                    proto |-> "all", port |-> None] >>),
       Numbered(<< [id |-> None, action |-> "ACCEPT", source_client_id |-> 1,
                    dest_client_id |-> None, dest_cidr |-> Unspecified,
                    proto |-> "all", port |-> None],
                   [id |-> None, action |-> "DROP", source_client_id |-> None,
                    dest_client_id |-> None,
                    dest_cidr |-> [parts |-> <<8, 8, 8, 8>>, len |-> 32],
                    proto |-> "udp", port |-> 53] >>) >>
RuleSet(script) ==
    commands_of(FirewallClients, sorted_rules(RuleLists[script]))

\* apply_rules() and remove_rules() of the rendered script
script_lines(cmd, script) ==
    IF cmd = "apply"
    THEN render_iptables_commands(FirewallClients, RuleLists[script])
    ELSE iptables_down

\* The script runs line by line, without set -e: a failing line does not
\* stop it, and its exit status is that of its last line.
MaxRuns == 4
NoRun == [cmd |-> "none"]
Ended(cmd, script, status) == [cmd |-> cmd, script |-> script, status |-> status]
InitFirewall ==
    /\ io = [fn |-> "rules.sh", fw |-> Pristine, run |-> NoRun, runs |-> 0,
             kills |-> 0, last |-> Ended("none", None, "none")]
    /\ ServerIdle

run_script ==
    /\ io.fn = "rules.sh"
    /\ io.run = NoRun
    /\ io.runs < MaxRuns
    /\ \E cmd \in {"apply", "remove"}, script \in DOMAIN RuleLists :
          io' = [io EXCEPT !.runs = @ + 1,
                           !.run = [cmd |-> cmd, script |-> script, pc |-> 1,
                                    from |-> io.last, old |-> io.fw]]
    /\ UNCHANGED server

script_step ==
    /\ io.fn = "rules.sh"
    /\ io.run # NoRun
    /\ LET lines == script_lines(io.run.cmd, io.run.script)
           r == run_line(io.fw, lines[io.run.pc])
       IN io' = IF io.run.pc < Len(lines)
                THEN [io EXCEPT !.fw = r.fw, !.run.pc = @ + 1]
                ELSE [io EXCEPT !.fw = r.fw, !.run = NoRun,
                                !.last = Ended(io.run.cmd, io.run.script,
                                               IF r.ok THEN "exit 0"
                                               ELSE "exit 1")]
    /\ UNCHANGED server

\* The script's process is killed before its next line (a signal, the
\* caller going away): the table stays as the lines so far left it.
script_killed ==
    /\ io.fn = "rules.sh"
    /\ io.run # NoRun
    /\ io' = [io EXCEPT !.run = NoRun, !.kills = @ + 1,
                        !.last = Ended(io.run.cmd, io.run.script, "killed")]
    /\ UNCHANGED server

NextFirewall == run_script \/ script_step \/ script_killed
SpecFirewall == InitFirewall /\ [][NextFirewall]_vars

\* ================================================================ claims
Pending == transaction_id # None
Started == 1..nextId
Reverted == {t \in Tids : reverts[t] > 0}
LiveTimer(t) == \E i \in DOMAIN timers :
                   timers[i].tid = t /\ timers[i].st \in {"armed", "fired"}
SidecarPending(t) ==
    /\ Exists(sidecar)
    /\ Content(sidecar).valid
    /\ Content(sidecar).status = "pending"
    /\ Content(sidecar).transaction_id = t

\* C1: every commit that changes the deployed files is covered by a
\* commit-confirm window: it happens while a transaction is pending, so that
\* it is either confirmed or undone by the revert logic.
C1_CommitIsProvisional ==
    [][(lastOp'.op = "commit" /\ <<conf', rules'>> # <<conf, rules>>)
          => transaction_id' # None]_vars

\* C2: a transaction that was started and is neither confirmed, aborted nor
\* reverted is never forgotten: either the running process tracks it with a
\* live deadline callback, or the sidecar holds its pending record for the
\* next init to recover.
C2_NeverForgotten ==
    \A t \in Started \ (confirmed \cup aborted \cup Reverted) :
        \/ up /\ transaction_id = t /\ LiveTimer(t)
        \/ SidecarPending(t)

\* C3: start_transaction called while a transaction is pending fails with
\* the conflict error and leaves the pending id, the sidecar and the armed
\* deadline callback as they were.
C3_StartConflictChangesNothing ==
    [][(lastOp'.op = "start" /\ Pending)
          => /\ lastOp'.ret = "conflict"
             /\ UNCHANGED <<transaction_id, sidecar, timer, timers, nextId>>]_vars

C3_Witness ==
    /\ lastOp = Op("start", None, "conflict")
    /\ Pending
    /\ SidecarPending(transaction_id)
    /\ timer # None /\ timers[timer].st = "armed"

\* C4: the revert logic runs at most once per transaction; when the deadline
\* callback of the pending transaction runs (never before its deadline), it
\* runs the revert logic once, the store is restored from the last-known-good
\* backup, the state becomes IDLE and the sidecar is removed.
C4_RevertOnce == \A t \in Tids : reverts[t] <= 1

C4_Due(t) == up /\ transaction_id = t /\ now >= Content(sidecar).expires_at
C4_Settled(t) == ~up \/ t \in confirmed \cup Reverted

C4_DeadlineReverts ==
    /\ []C4_RevertOnce
    /\ \A t \in Tids : C4_Due(t) ~> C4_Settled(t)
    /\ [][(lastOp'.op = "auto_revert" /\ Pending /\ lastOp'.arg = transaction_id)
            => /\ now >= Content(sidecar).expires_at
               /\ reverts'[transaction_id] = reverts[transaction_id] + 1
               /\ Exists(backup) /\ store' = Content(backup)
               /\ transaction_id' = None
               /\ sidecar' = NoFile]_vars

C4_Witness ==
    /\ lastOp.op = "auto_revert" /\ lastOp.ret = "reverted"
    /\ reverts[lastOp.arg] = 1
    /\ \E i \in DOMAIN timers : timers[i].st = "done" /\ timers[i].tid = lastOp.arg
    /\ now >= Window
    /\ ~Pending /\ sidecar = NoFile /\ store = Content(backup)

\* C5: confirm_transaction(id) with an id that is not the pending
\* transaction's id (any id at all while IDLE) returns False and changes
\* neither the backup, the sidecar, the transaction state nor the callback.
C5_StaleConfirmNoEffect ==
    [][(lastOp'.op = "confirm" /\ (~Pending \/ lastOp'.arg # transaction_id))
          => /\ lastOp'.ret = "false"
             /\ UNCHANGED <<backup, sidecar, transaction_id, timer, timers>>]_vars

\* C6: when confirm_transaction returns True the backup equals the store,
\* the sidecar is absent and the state is IDLE; and no transaction is ever
\* both confirmed and reverted, also when its deadline callback had already
\* fired and runs after the confirm.
C6_ConfirmedNotReverted == confirmed \cap Reverted = {}

C7_ExpiredRecovery ==
    [][(~up /\ up' /\ Exists(sidecar) /\ Content(sidecar).valid
          /\ Content(sidecar).status = "pending"
          /\ Content(sidecar).expires_at <= now)
          => /\ reverts'[Content(sidecar).transaction_id]
                   = reverts[Content(sidecar).transaction_id] + 1
             /\ store' = Content(backup)
             /\ sidecar' = NoFile
             /\ transaction_id' = None
             /\ timer' = None
             /\ timers' = <<>>]_vars

C7_Witness ==
    /\ lastOp.op = "init" /\ lastOp.ret = "reverted"
    /\ reverts[lastOp.arg] = 1
    /\ up /\ ~Pending /\ sidecar = NoFile /\ timers = <<>>

\* C8: init on a pending sidecar whose expires_at is still in the future
\* resumes the transaction: the state is PENDING with the recorded id, one
\* callback is armed to fire exactly at expires_at, a confirm with the
\* recorded id matches and a start is a conflict.
C8_ResumedRecovery ==
    [][(~up /\ up' /\ Exists(sidecar) /\ Content(sidecar).valid
          /\ Content(sidecar).status = "pending"
          /\ Content(sidecar).expires_at > now)
          => /\ transaction_id' = Content(sidecar).transaction_id
             /\ timer' \in DOMAIN timers'
             /\ timers'[timer'] = [tid |-> Content(sidecar).transaction_id,
                                   fireAt |-> Content(sidecar).expires_at,
                                   st |-> "armed"]
             /\ Len(timers') = 1
             /\ ConfirmMatches(transaction_id', Content(sidecar).transaction_id)
             /\ StartConflict(transaction_id')
             /\ UNCHANGED <<sidecar, store, reverts>>]_vars

C8_Witness ==
    /\ lastOp.op = "init" /\ lastOp.ret = "resumed"
    /\ Pending /\ SidecarPending(transaction_id)
    /\ now > 0
    /\ timers[timer].fireAt = Content(sidecar).expires_at
    /\ timers[timer].fireAt - now < Window

\* C9: abort_transaction cancels the deadline callback; with a transaction
\* pending it runs the revert logic once, the state becomes IDLE and the
\* sidecar is cleared, and no transaction is ever reverted twice; with none
\* pending it runs no revert and changes neither the store nor the backup.
C9_NoSecondRevert == \A t \in aborted : reverts[t] = 1

C9_Abort ==
    /\ []C9_NoSecondRevert
    /\ [][lastOp'.op = "abort"
            => /\ timer' = None
               /\ \A i \in DOMAIN timers : i = timer => timers'[i].st # "armed"
               /\ IF Pending
                  THEN /\ reverts'[transaction_id] = reverts[transaction_id] + 1
                       /\ store' = Content(backup)
                       /\ transaction_id' = None
                       /\ sidecar' = NoFile
                  ELSE UNCHANGED <<store, backup, reverts, conf, rules>>]_vars

C9_Witness ==
    /\ lastOp.op = "auto_revert" /\ lastOp.ret = "superseded"
    /\ lastOp.arg \in aborted
    /\ reverts[lastOp.arg] = 1
    /\ ~Pending /\ sidecar = NoFile

\* C10: a deadline callback of a transaction that was confirmed or aborted
\* is a no-op when it runs, also while a later transaction is pending: it
\* changes neither the store, the backup, the files, the sidecar nor the
\* transaction state.
C10_StaleCallbackNoOp ==
    [][(lastOp'.op = "auto_revert" /\ lastOp'.arg \in confirmed \cup aborted)
          => UNCHANGED <<store, backup, conf, rules, sidecar, transaction_id,
                         timer, reverts>>]_vars

C10_Witness ==
    /\ lastOp.op = "auto_revert"
    /\ lastOp.arg \in confirmed \cup aborted
    /\ Pending /\ transaction_id # lastOp.arg
    /\ SidecarPending(transaction_id)

\* ------------------------------------------------------ the commit pipeline
\* Tried: the command was reached by the deployment, whatever came of it.
Tried(tr, a) == \E i \in DOMAIN tr : tr[i].act = a
Before(tr, a, b) ==
    \E i, j \in DOMAIN tr : i < j /\ tr[i].act = a /\ tr[j].act = b
Committed == lastOp.op = "commit" /\ lastOp.ret # "error"

\* The decision table as the specification words it.
C13_Table(oldConf, oldRules, s) ==
    IF ~Exists(oldConf) \/ Content(oldConf).iface # render_wg_conf(s).iface
    THEN "full restart"
    ELSE IF Content(oldConf) # render_wg_conf(s) THEN "hot reload"
    ELSE IF ~Exists(oldRules) \/ Content(oldRules) # render_firewall_script(s)
    THEN "firewall update"
    ELSE "no changes"

\* C13: commit selects its strategy by the table, for every combination of
\* the files on disk and the new render: interface part changed => full
\* restart; else the config changed => hot reload followed by firewall
\* apply; else the script changed => firewall-only apply; else nothing.  A
\* missing config counts as interface changed, a missing script as changed.
\* A commit that returns its plain status has run the steps of its strategy.
C13_StrategyTable ==
    [][(lastOp'.op = "commit" /\ store.key)
          => LET st == C13_Table(conf, rules, store)
                 tr == trace'
             IN /\ lastOp'.arg = st
                /\ lastOp'.ret = st =>
                     CASE st = "full restart" ->
                            /\ Wrote(tr, "write conf")
                            /\ Tried(tr, "systemctl start") \/ Tried(tr, "wg-quick up")
                            /\ ~Tried(tr, "wg syncconf") /\ ~Tried(tr, "rules apply")
                       [] st = "hot reload" ->
                            /\ Wrote(tr, "write conf")
                            /\ Before(tr, "write conf", "rules apply")
                            /\ \/ Before(tr, "wg syncconf", "rules apply")
                               \/ Before(tr, "systemctl start", "rules apply")
                               \/ Before(tr, "wg-quick up", "rules apply")
                       [] st = "firewall update" ->
                            /\ Tried(tr, "rules apply")
                            /\ \A a \in Acts \cup {"write conf"} :
                                  Tried(tr, a) => a = "rules apply"
                            /\ conf' = conf
                       [] OTHER ->
                            /\ \A a \in Acts \cup {"write conf"} : ~Tried(tr, a)
                            /\ conf' = conf]_vars

C13_Witness ==
    /\ lastOp = Op("commit", "hot reload", "hot reload")
    /\ Wrote(trace, "wg syncconf") /\ Wrote(trace, "rules apply")
    /\ Before(trace, "wg syncconf", "rules apply")
    /\ conf = File(render_wg_conf(store))

\* C14: in every commit the new firewall script is written and made
\* executable before any step that activates the interface config, and it is
\* written at the path the PostUp/PostDown lines of the config call.
C14_ScriptBeforeHooks ==
    Committed =>
       /\ \A j \in DOMAIN trace :
             trace[j].act \in {"systemctl start", "wg-quick up", "wg syncconf"}
             => \E i, k \in 1..(j - 1) :
                   /\ trace[i] = [act |-> "write rules", res |-> "ok"]
                   /\ trace[k] = [act |-> "chmod rules", res |-> "ok"]
       /\ rules_path(host.cfg) = rules_script_path(host.cfg)

\* C15: when a live-activation step fails during a commit, the call returns
\* the warning status, the new script and the new config are on disk by
\* then, and the store is unchanged.
C15_FailedActivationWarns ==
    [][(lastOp'.op = "commit"
        /\ \E i \in DOMAIN trace' :
              trace'[i].act \in Activations /\ trace'[i].res = "failed")
          => /\ lastOp'.ret = "warning"
             /\ conf' = File(render_wg_conf(store))
             /\ rules' = File(render_firewall_script(store))
             /\ store' = store]_vars

\* C16: a commit on an incomplete server configuration (private key, public
\* key or endpoint missing) is refused before anything is done on the host:
\* no file is written and no tool is called.
C16_IncompleteRefused ==
    [][(lastOp'.op = "commit" /\ ~(store.key /\ store.pub /\ store.endpoint))
          => /\ lastOp'.ret = "error"
             /\ trace' = <<>>
             /\ UNCHANGED <<conf, rules>>]_vars

\* C17: a tool that cannot be found is never passed over: a commit in which
\* a step did not find its tool does not report a plain committed status.
C17_MissingToolReported ==
    (lastOp.op = "commit"
     /\ \E i \in DOMAIN trace : trace[i].res = "missing")
    => lastOp.ret = "warning"

\* A step in which _trigger_revert_logic ran to its end.
RevertStep ==
    \/ lastOp'.op = "abort" /\ lastOp'.ret = "true"
    \/ lastOp'.op = "auto_revert" /\ lastOp'.ret = "reverted"
    \/ lastOp'.op = "init" /\ lastOp'.ret = "reverted"

\* C20: after the revert logic has run with a backup present, the store
\* equals the backup and the config and the script on disk are the render
\* of the restored data, not of the discarded data.  Stated for the reverts
\* that find a deployed config on disk.
C20_RevertRedeploysRestored ==
    [][(RevertStep /\ Exists(backup') /\ Exists(conf))
          => /\ store' = Content(backup')
             /\ conf' = File(render_wg_conf(store'))
             /\ rules' = File(render_firewall_script(store'))]_vars

\* ------------------------------------------------------------ the lock
InsideSection(t) ==
    thr[t].pc \in Inside \/ (thr[t].pc = "blocked" /\ thr[t].op # "commit")
InDeployment(t) == thr[t].pc \in Deploying \/ thr[t].pc = "blocked"

\* C11: start, confirm, abort and the deadline callback are mutually
\* exclusive critical sections: never are two threads between taking and
\* releasing the lock, the thread inside is the one holding the lock, and
\* the transaction id a handler read is still the id when it acts on it.
C11_MutualExclusion ==
    /\ Cardinality({t \in Threads : InsideSection(t)}) <= 1
    /\ \A t \in Threads : InsideSection(t) => lock = t
    /\ \A t \in Threads :
          thr[t].pc \in {"act", "reverting"} => thr[t].seen = transaction_id

C11_Witness ==
    \E t \in ReqThreads, i \in DOMAIN timers :
       /\ At(t, "act") /\ thr[t].op = "abort" /\ thr[t].seen = transaction_id
       /\ Pending
       /\ At(TimerThread(i), "wait") /\ timers[i].tid = transaction_id
       /\ \E u \in ReqThreads : u # t /\ At(u, "wait")

\* C12: no deployment is started while a commit-confirm window is open, and
\* no two deployments (a commit's and a revert's redeploy, or two commits)
\* are in progress at the same time.
C12_OneDeploymentOutsideWindow ==
    /\ [][\A t \in ReqThreads :
             (thr[t].pc = "idle" /\ thr'[t].pc = "deploying") => ~Pending]_vars
    /\ [](Cardinality({t \in Threads : InDeployment(t)}) <= 1)

\* C19: no operation blocks for ever when an external tool hangs: a thread
\* that holds the lock releases it, and a commit returns.
C19_LockReleased ==
    /\ (lock # None) ~> (lock = None)
    /\ \A t \in ReqThreads : At(t, "deploying") ~> (thr[t] = Idle)

\* C18: the writes of the sidecar (and of the backup, the config and the
\* script) are atomic replacements: after a crash at any point of a write
\* the file holds its complete old or its complete new content, so the
\* recovery of the next boot never reads a truncated sidecar.
C18_RecoveryReadsWholeSidecar ==
    /\ [](~up /\ Exists(sidecar) => Content(sidecar).valid)
    /\ [][lastOp'.op = "init" /\ Exists(sidecar) => Content(sidecar).valid]_vars

\* ------------------------------------------------- backup and sidecar
\* C21: when the revert logic runs and no backup exists, the attempt ends as
\* a surfaced failure: the store is left unchanged, nothing is redeployed,
\* the result of the operation tells that the revert failed, and the revert
\* is not attempted again for that transaction.
C21_RevertFailedSurfaced ==
    [][(RevertStep /\ ~Exists(backup'))
          => /\ UNCHANGED <<store, conf, rules>>
             /\ lastOp'.ret \notin {"true", "reverted"}
             /\ transaction_id' = None /\ sidecar' = NoFile
             /\ \A t \in Tids : reverts'[t] <= 1]_vars

\* C23: init copies the store to the backup when no backup exists and never
\* overwrites an existing backup; when it finds a pending sidecar and no
\* backup, the store of the unconfirmed transaction does not become the
\* state that is reverted to.
C23_BaselineBootstrap ==
    [][lastOp'.op = "init"
          => IF Exists(backup) THEN backup' = backup
             ELSE IF SidecarPending(Content(sidecar).transaction_id)
                  THEN backup' # File(store)
                  ELSE backup' = File(store)]_vars

\* C22: the backup changes only by a successful confirm_transaction or by a
\* baseline bootstrap, it then becomes a copy of the store, and it never
\* changes while a transaction is pending and unconfirmed.
C22_BackupIsConfirmedState ==
    [][backup' # backup
          => /\ backup' = File(store)
             /\ \/ lastOp' = Op("confirm", transaction_id, "true")
                \/ ~Pending /\ lastOp'.op \in {"init", "setup"}]_vars

\* C24: while the running process has a pending transaction t, the sidecar
\* holds the record {t, pending, start time + 60 s}, the deadline the armed
\* callback waits for; and while it has none, no pending record is on disk.
C24_SidecarMatchesState ==
    up => IF Pending
          THEN /\ SidecarPending(transaction_id)
               /\ timer # None
               /\ Content(sidecar).expires_at = timers[timer].fireAt
          ELSE ~(\E t \in Tids : SidecarPending(t))

\* C25: commit_preview deploys nothing: it runs no tool and leaves the
\* config, the firewall script, the store, the backup and the transaction
\* state as they were, and it returns its summary, also when no config
\* exists on disk.
C25_PreviewDeploysNothing ==
    [][lastOp'.op = "preview"
          => /\ UNCHANGED <<conf, rules, store, backup, sidecar,
                            transaction_id, timer, timers, trace>>
             /\ lastOp'.ret = "returned"]_vars

\* ------------------------------------------------------------- helpers
\* C26: find_next_available_octet returns the smallest octet of 2..254 that
\* is neither assigned nor excluded, and raises exactly when the two sets
\* together cover 2..254.
C26_SmallestFreeOctet ==
    (io.fn = "find_next_available_octet" /\ Answered)
        => LET Free == (2..254) \ (io.in.used \cup io.in.exclude)
           IN IF Free = {} THEN io.res.end = "raised"
              ELSE /\ io.res.end = "returned"
                   /\ io.res.out \in Free
                   /\ \A f \in Free : io.res.out <= f

C26_Witness ==
    /\ io.fn = "find_next_available_octet" /\ Answered
    /\ io.res.end = "returned" /\ io.res.out = 254
    /\ 2 \in io.in.exclude \ io.in.used

\* C27: for a network N and an octet o, validate_octet_for_network is true
\* exactly when the address made of N's network address with its last byte
\* replaced by o lies inside N and is neither N's network address nor its
\* broadcast address; and where it is true, get_client_ip returns that
\* address as a /32.
C27_Base == IPv4(io.in.cidr.parts)
C27_Size == 2 ^ (32 - io.in.cidr.len)
C27_Address == C27_Base - (C27_Base % 256) + io.in.octet
C27_Valid ==
    /\ io.in.octet \in 0..255
    /\ C27_Base <= C27_Address /\ C27_Address < C27_Base + C27_Size
    /\ C27_Address # C27_Base
    /\ C27_Address # C27_Base + C27_Size - 1
C27_OctetValidation ==
    (Answered /\ io.fn \in {"validate_octet_for_network", "get_client_ip"}
              /\ C27_Base % C27_Size = 0)
        => /\ io.fn = "validate_octet_for_network"
                => io.res = Returned(C27_Valid)
           /\ (io.fn = "get_client_ip" /\ C27_Valid)
                => /\ io.res = Returned([parts |-> Dotted(C27_Address),
                                         len |-> 32])
                   /\ validate_octet_for_network(io.in.cidr, io.in.octet)

C27_Witness ==
    /\ Answered /\ io.fn = "validate_octet_for_network"
    /\ io.in.cidr = [parts |-> <<10, 0, 1, 128>>, len |-> 25]
    /\ io.in.octet = 254
    /\ io.res = Returned(TRUE)

\* C28: in the up list every -A command made for a DROP rule comes before
\* every -A command made for an ACCEPT rule, and within each group the
\* commands follow the order of their rules in the input.
Rendered == Answered /\ io.fn = "render_iptables_commands"
Appends == {k \in DOMAIN io.res.out : io.res.out[k].parts[1][1] = "-A"}
RuleOf(k) == io.in.rules[io.res.out[k].rule]
C28_DropBeforeAccept ==
    Rendered
        => \A p, q \in Appends :
              p < q => /\ ~(RuleOf(p).action = "ACCEPT"
                            /\ RuleOf(q).action = "DROP")
                       /\ RuleOf(p).action = RuleOf(q).action
                             => RuleOf(p).id <= RuleOf(q).id

C28_Witness ==
    /\ Rendered
    /\ Len(io.in.rules) = 3
    /\ io.in.rules[1].action = "ACCEPT"
    /\ io.in.rules[2].action = "DROP"
    /\ io.in.rules[3].action = "ACCEPT"
    /\ \A i \in 1..3 : \E k \in Appends : io.res.out[k].rule = i

\* C29: every rule yields exactly one -A command on the temp chain per pair
\* of a source address and a destination address (the addresses of the
\* source client in its networks, or one unspecified source; the addresses
\* of the destination client, or the literal CIDR, or one unspecified
\* destination); each command carries the rule's protocol and port and ends
\* in -j with the rule's action; and no rule is left without a command.
C29_Addresses(id) ==
    UNION {{[parts |-> [c.networks[j].cidr.parts EXCEPT ![4] = c.octet],
             len |-> 32] : j \in DOMAIN c.networks} :
              c \in {io.in.clients[i] : i \in {i \in DOMAIN io.in.clients :
                                                 io.in.clients[i].id = id}}}
C29_Sources(r) ==
    IF r.source_client_id = None THEN {Unspecified}
    ELSE C29_Addresses(r.source_client_id)
C29_Dests(r) ==
    IF r.dest_client_id # None THEN C29_Addresses(r.dest_client_id)
    ELSE {r.dest_cidr}
C29_Opt(c, flag) ==
    LET ks == {k \in DOMAIN c.parts : c.parts[k][1] = flag}
    IN IF ks = {} THEN <<>> ELSE <<c.parts[CHOOSE k \in ks : TRUE][2]>>
C29_Addr(c, flag) ==
    IF C29_Opt(c, flag) = <<>> THEN Unspecified ELSE C29_Opt(c, flag)[1]
C29_OnePerPair ==
    \A i \in DOMAIN io.in.rules :
       LET r == io.in.rules[i]
           cmds == {k \in Appends : io.res.out[k].rule = i}
       IN /\ \A sa \in C29_Sources(r), da \in C29_Dests(r) :
                Cardinality({k \in cmds :
                    /\ C29_Addr(io.res.out[k], "-s") = sa
                    /\ C29_Addr(io.res.out[k], "-d") = da}) = 1
          /\ Cardinality(cmds)
                = Cardinality(C29_Sources(r)) * Cardinality(C29_Dests(r))
C29_Matches ==
    \A k \in Appends :
       LET c == io.res.out[k]
           r == RuleOf(k)
       IN /\ c.parts[1] = <<"-A", "WG_ACCESS_TEMP">>
          /\ c.parts[Len(c.parts)] = <<"-j", r.action>>
          /\ C29_Opt(c, "-p") = (IF r.proto = "all" THEN <<>> ELSE <<r.proto>>)
          /\ C29_Opt(c, "--dport") = (IF r.port = None THEN <<>> ELSE <<r.port>>)
C29_NoneDropped ==
    \A i \in DOMAIN io.in.rules : \E k \in Appends : io.res.out[k].rule = i
C29_OneCommandPerPair ==
    Rendered => C29_OnePerPair /\ C29_Matches /\ C29_NoneDropped

\* C30: the rendered config holds a begin and an end marker with the
\* client's name for every enabled client and for no disabled one, and the
\* AllowedIPs between a client's markers are the client's tunnel address in
\* each of its networks and the CIDR of each of its routes.
C30_Lines(k, name) ==
    {i \in DOMAIN io.res.out : io.res.out[i].k = k /\ io.res.out[i].v = name}
C30_Tunnel(c) ==
    {[parts |-> [c.networks[j].cidr.parts EXCEPT ![4] = c.octet], len |-> 32] :
        j \in DOMAIN c.networks}
C30_Routed(c) == {c.routes[j].target_cidr : j \in DOMAIN c.routes}
C30_Block(c) ==
    /\ Cardinality(C30_Lines("### begin", c.name)) = 1
    /\ Cardinality(C30_Lines("### end", c.name)) = 1
    /\ LET b == CHOOSE i \in C30_Lines("### begin", c.name) : TRUE
           e == CHOOSE i \in C30_Lines("### end", c.name) : TRUE
           inner == {i \in (b + 1)..(e - 1) : io.res.out[i].k = "AllowedIPs"}
       IN /\ b < e
          /\ \A i \in (b + 1)..(e - 1) :
                io.res.out[i].k \notin {"### begin", "### end"}
          /\ Cardinality(inner) = 1
          /\ \A i \in inner :
                {io.res.out[i].v[j] : j \in DOMAIN io.res.out[i].v}
                    = C30_Tunnel(c) \cup C30_Routed(c)
C30_PeerBlocks ==
    (Answered /\ io.fn = "render_wg_conf")
        => \A n \in DOMAIN io.in.clients :
              LET c == io.in.clients[n]
              IN IF c.enabled THEN C30_Block(c)
                 ELSE /\ C30_Lines("### begin", c.name) = {}
                      /\ C30_Lines("### end", c.name) = {}

C30_Witness ==
    /\ Answered /\ io.fn = "render_wg_conf"
    /\ Len(io.in.clients) = 2
    /\ ~io.in.clients[1].enabled /\ Len(io.in.clients[1].networks) = 1
    /\ io.in.clients[2].enabled /\ Len(io.in.clients[2].networks) = 2
    /\ Len(io.in.clients[2].routes) = 1
    /\ C30_Lines("### begin", io.in.clients[2].name) # {}

\* ---------------------------------------------------- commit and preview
\* C38: after a commit that returned a plain committed status, a commit
\* repeated with the store and the files unchanged selects "no changes": it
\* runs no tool, neither restarts nor reloads the interface, and leaves the
\* content of the config file as it is.
PlainStatus == {"full restart", "hot reload", "firewall update", "no changes"}
C38_RepeatedCommitIsNoOp ==
    [][(lastOp.op = "commit" /\ lastOp.ret \in PlainStatus
        /\ lastOp'.op = "commit again")
          => /\ lastOp'.arg = "no changes"
             /\ lastOp'.ret = "no changes"
             /\ \A i \in DOMAIN trace' : trace'[i].act \notin Acts
             /\ conf' = conf]_vars

C38_Witness ==
    /\ lastOp = Op("commit again", "no changes", "no changes")
    /\ Exists(conf) /\ Content(conf) = render_wg_conf(store)
    /\ store.cli = MaxVer

\* C39: for every store and every state of the files on disk, a missing
\* config included, commit_preview reports full_restart_needed exactly when
\* _perform_commit on the same state selects the full restart, and reports
\* modified rules exactly when _perform_commit takes the script as changed.
C39_PreviewMatchesCommit ==
    [][lastOp'.op = "preview"
          => /\ io'.end = "returned"
             /\ io'.modified_interface
                   = (perform_commit_on(store, conf, rules, host).strategy
                         = "full restart")
             /\ io'.modified_rules
                   = rules_changed(rules, render_firewall_script(store))]_vars

\* ------------------------------------------------------ SystemService
\* C34: the full restart stops, writes, starts, in that order: the interface
\* is stopped only while the old config is on disk and before the new one is
\* written, and it is brought up only after the write.  Without systemd the
\* teardown runs only when the interface exists.  A stop step that fails
\* prevents neither the write nor the start.
Stops == {"systemctl stop", "wg-quick down"}
Starts == {"systemctl start", "wg-quick up"}
C34_Order(tr) ==
    /\ \A i, j \in DOMAIN tr :
          (tr[i].act \in Stops /\ tr[j].act = "write conf") => i < j
    /\ \A i, j \in DOMAIN tr :
          (tr[i].act = "write conf" /\ tr[j].act \in Starts) => i < j
C34_StopFailed(tr) ==
    \E i \in DOMAIN tr : /\ tr[i].act \in Stops \cup {"resolve"}
                         /\ tr[i].res \in {"failed", "missing"}
C34_StopWriteStart ==
    [][(lastOp'.op = "commit" /\ lastOp'.arg = "full restart")
          => /\ C34_Order(trace')
             /\ (\E a \in Stops : Tried(trace', a)) => Exists(conf)
             /\ Tried(trace', "wg-quick down")
                   => ~host.systemd /\ interface_exists(host)
             /\ C34_StopFailed(trace')
                   => /\ Tried(trace', "write conf")
                      /\ \E a \in Starts : Tried(trace', a)]_vars

\* C35: the hot reload writes the new config first; when the interface is
\* up it synchronizes the peers and never stops or starts the interface;
\* when it is not up the steps of the full restart follow.  Whenever the
\* reload returns without error the running interface has taken the new
\* config: the command that loads it has succeeded.
C35_Loaded(tr) ==
    \E i \in DOMAIN tr : /\ tr[i].act \in {"wg syncconf"} \cup Starts
                         /\ tr[i].res = "ok"
C35_ReloadReturned(tr) ==
    \E i, j \in DOMAIN tr : i < j /\ tr[i].act = "write conf"
                                  /\ tr[j].act = "write rules"
C35_HotReloadSyncs ==
    (lastOp.op = "commit" /\ lastOp.arg = "hot reload"
     /\ Tried(trace, "write conf"))
        => /\ \A i \in DOMAIN trace :
                 trace[i].act \in Stops \cup Starts \cup {"wg syncconf"}
                    => \E j \in 1..(i - 1) : trace[j].act = "write conf"
           /\ host.ifup => /\ Tried(trace, "wg syncconf")
                           /\ \A i \in DOMAIN trace :
                                 trace[i].act \notin Stops \cup Starts
           /\ ~host.ifup => /\ ~Tried(trace, "wg syncconf")
                            /\ \E a \in Starts : Tried(trace, a)
           /\ C35_ReloadReturned(trace) => C35_Loaded(trace)

\* ------------------------------------------------ crashes and deadlines
\* C36: the sidecar of a pending transaction is removed only after the
\* revert has finished, and in confirm only after the promotion: when the
\* process dies inside one of the three handlers the pending record is still
\* on disk, and the init that follows either runs the revert to its end or
\* takes the transaction up again; it never comes up idle.
C36_MidCrash == lastOp.op = "crash" /\ lastOp.ret \in {"in revert", "in confirm"}
C36_SidecarRemovedLast ==
    [][/\ (lastOp'.op = "crash" /\ lastOp'.ret \in {"in revert", "in confirm"})
            => /\ Exists(sidecar') /\ Content(sidecar').valid
               /\ Content(sidecar').status = "pending"
               /\ Content(sidecar').transaction_id = lastOp'.arg
       /\ (C36_MidCrash /\ lastOp'.op = "init")
            => \/ /\ lastOp' = Op("init", lastOp.arg, "reverted")
                  /\ store' = Content(backup')
                  /\ sidecar' = NoFile
               \/ /\ lastOp' = Op("init", lastOp.arg, "resumed")
                  /\ transaction_id' = lastOp.arg
                  /\ timer' # None
                  /\ sidecar' = sidecar]_vars

C36_Witness ==
    /\ C36_MidCrash /\ lastOp.ret = "in revert"
    /\ ~up /\ SidecarPending(lastOp.arg)
    /\ store = Content(backup)
    /\ Exists(conf) /\ Content(conf) # render_wg_conf(store)

\* C37: confirm_transaction never succeeds for a transaction whose deadline
\* has passed: once expires_at is reached, with the deadline callback fired
\* and waiting or not yet woken, a confirm for that id returns False and
\* promotes nothing.
C37_Elapsed ==
    /\ Pending /\ SidecarPending(transaction_id)
    /\ Content(sidecar).expires_at <= now
C37_NoConfirmAfterDeadline ==
    [][(C37_Elapsed /\ lastOp'.op = "confirm"
        /\ lastOp'.arg = transaction_id)
          => /\ lastOp'.ret = "false"
             /\ backup' = backup
             /\ confirmed' = confirmed]_vars

\* C31: a client that owns Routes gets, in its own configuration, one PostUp
\* and one PostDown snippet for each CIDR it owns and none for any other
\* CIDR, and every CIDR owned by another client is listed exactly once in
\* the AllowedIPs of the configuration it downloads.
C31_Served ==
    /\ Answered /\ io.fn = "download_client_config"
    /\ io.res.end = "returned"
C31_Self == find_client(io.in.db.clients, io.in.client_id)[1]
C31_Owned(c) == {c.routes[j].target_cidr : j \in DOMAIN c.routes}
C31_Snippets(cmds, kind, cidr) ==
    {i \in DOMAIN cmds : cmds[i].cmd = kind /\ cmds[i].cidr = cidr}
C31_Named(cmds, kind) ==
    {cmds[i].cidr : i \in {j \in DOMAIN cmds : cmds[j].cmd = kind}}
C31_OwnSnippets ==
    C31_Served =>
       LET out == io.res.out
           own == C31_Owned(C31_Self)
       IN /\ C31_Named(out.post_up, "nat -A") = own
          /\ C31_Named(out.post_down, "nat -D") = own
          /\ \A x \in own :
                /\ Cardinality(C31_Snippets(out.post_up, "nat -A", x)) = 1
                /\ Cardinality(C31_Snippets(out.post_down, "nat -D", x)) = 1
C31_OthersAllowed ==
    C31_Served =>
       \A k \in DOMAIN io.in.db.clients :
          LET d == io.in.db.clients[k]
          IN d.id # io.in.client_id =>
                \A x \in C31_Owned(d) :
                   Cardinality({i \in DOMAIN io.res.out.allowed_ips :
                                   io.res.out.allowed_ips[i] = x}) = 1
C31_RoutedClientConfig == C31_OwnSnippets /\ C31_OthersAllowed
C31_DistinctRows ==
    \A k \in DOMAIN io.in.db.clients :
       LET r == io.in.db.clients[k].routes
       IN \A i, j \in DOMAIN r : r[i] = r[j] => i = j
C31_HoldsForDistinctRows ==
    C31_DistinctRows => C31_RoutedClientConfig

\* C32: during a run of the apply sequence that starts from a state left by
\* a previous apply that ran to its end, the FORWARD policy is DROP and
\* FORWARD holds, at every step, a jump to a chain holding the complete old
\* or the complete new rule set; the jump to the old live chain is deleted
\* only with the jump to the fully populated temp chain in place, and the
\* run ends with the rename.
C32_Applying(statuses) ==
    /\ io.run # NoRun /\ io.run.cmd = "apply"
    /\ io.run.from.cmd = "apply" /\ io.run.from.status \in statuses
C32_Filtered ==
    \E i \in DOMAIN io.fw.FORWARD :
       /\ io.fw.FORWARD[i] \in {CHAIN_NAME, TEMP_CHAIN}
       /\ io.fw.chains[io.fw.FORWARD[i]].rules
             \in {RuleSet(io.run.from.script), RuleSet(io.run.script)}
C32_Line == script_lines(io.run.cmd, io.run.script)[io.run.pc].parts[1][1]
C32_Order ==
    /\ C32_Line = "-D" =>
          /\ Jumps(io.fw, TEMP_CHAIN) # {}
          /\ io.fw.chains[TEMP_CHAIN].rules = RuleSet(io.run.script)
    /\ io'.run = NoRun /\ io'.last.status # "killed" =>
          /\ C32_Line = "-E"
          /\ io'.last.status = "exit 0"
C32_NeverUnfiltered ==
    /\ [](C32_Applying({"exit 0", "exit 1"}) =>
             io.fw.policy = "DROP" /\ C32_Filtered)
    /\ [][C32_Applying({"exit 0", "exit 1"}) => C32_Order]_vars
\* The state part alone, for runs that follow an apply whose rename worked.
C32_AfterSuccess ==
    C32_Applying({"exit 0"}) => io.fw.policy = "DROP" /\ C32_Filtered
\* The whole of it, as long as no run has been killed.
C32_WithoutKill ==
    /\ [](io.kills = 0 /\ C32_Applying({"exit 0", "exit 1"}) =>
             io.fw.policy = "DROP" /\ C32_Filtered)
    /\ [][io.kills = 0 /\ C32_Applying({"exit 0", "exit 1"})
            => C32_Order]_vars

\* C33: after every apply run that ran to its end, whatever apply and
\* remove runs came before and wherever they were cut short, FORWARD holds
\* exactly one jump to WG_ACCESS_CONTROL, that chain holds exactly the
\* rules just rendered and the temp chain is gone; and applying the script
\* that was applied last leaves the table as it was.
C33_Applied ==
    /\ io.run = NoRun
    /\ io.last.cmd = "apply" /\ io.last.status # "killed"
C33_Clean(script) ==
    /\ Cardinality(Jumps(io.fw, CHAIN_NAME)) = 1
    /\ io.fw.chains[CHAIN_NAME] =
          [exists |-> TRUE, rules |-> RuleSet(script)]
    /\ ~io.fw.chains[TEMP_CHAIN].exists
    /\ Jumps(io.fw, TEMP_CHAIN) = {}
C33_Again ==
    /\ io.run # NoRun /\ io.run.cmd = "apply"
    /\ io.run.from.cmd = "apply" /\ io.run.from.status # "killed"
    /\ io.run.from.script = io.run.script
    /\ io'.run = NoRun /\ io'.last.status # "killed"
C33_ApplyConverges ==
    /\ [](C33_Applied => C33_Clean(io.last.script))
    /\ [][C33_Again => io'.fw = io.run.old]_vars
\* The same, as long as no run has been killed.
C33_WithoutKill ==
    /\ [](io.kills = 0 /\ C33_Applied => C33_Clean(io.last.script))
    /\ [][io.kills = 0 /\ C33_Again => io'.fw = io.run.old]_vars

====
